---------------------------- MODULE Spec2Model ----------------------------
(***************************************************************************)
(* A model of the JavaScript-Security-Patterns library: the XSS content    *)
(* sanitizer (examples/02-xss-prevention) and the constrained expression   *)
(* evaluator (examples/03-eval-alternatives).                              *)
(*                                                                         *)
(* A JavaScript string is a sequence of one-character strings, so that the *)
(* regular-expression passes of the code are computed character by         *)
(* character, the way the regular-expression engine computes them.         *)
(***************************************************************************)
EXTENDS Integers, Sequences, FiniteSets, TLC

VARIABLES
    html,        \* sanitizeHTML: the first argument (a string, or NotAString)
    options,     \* sanitizeHTML: the options record
    output,      \* sanitizeHTML: the returned string (None before the call)
    output2,     \* sanitizeHTML applied to its own output (None before)
    xpc,         \* position of the sanitizer's caller
    expression,  \* secureEval: the expression argument (tokens, or NotAString)
    context,     \* secureEval: the context argument (identifier -> value)
    result,      \* secureEval: the returned result object (None before)
    compiled,    \* secureEval: TRUE once new Function(...) has been invoked
    thrown,      \* secureEval: TRUE if an exception left the call
    resolved,    \* secureEval: identifiers resolved in the global scope
    heap,        \* secureEval: the properties that expressions have written
                 \* on objects that outlive a call
    epc,         \* position of the evaluator's caller
    call,        \* the other functions: the function called and its arguments
    ret,         \* the other functions: what the call returned or threw
    cpc          \* position of the caller of the other functions

vars == <<html, options, output, output2, xpc,
          expression, context, result, compiled, thrown, resolved, heap,
          epc, call, ret, cpc>>

xssVars == <<html, options, output, output2, xpc>>
evalVars ==
    <<expression, context, result, compiled, thrown, resolved, heap, epc>>
callVars == <<call, ret, cpc>>

\* JavaScript values: a string carries its characters
JSString(s) == [t |-> "string", s |-> s]
JSUndefined == [t |-> "undefined"]
JSNull == [t |-> "null"]
\* a number: finite (a signed fraction n/d in lowest terms, the zeros
\* signed), infinite or NaN
Finite(neg, n, d) ==
    [t |-> "number", k |-> "finite", neg |-> neg, n |-> n, d |-> d]
Infinite(neg) ==
    [t |-> "number", k |-> "infinite", neg |-> neg, n |-> 0, d |-> 1]
NaNValue == [t |-> "number", k |-> "NaN", neg |-> FALSE, n |-> 0, d |-> 1]
JSNumber(n) == Finite(FALSE, n, 1)
\* an object of the host: Math, a RegExp
JSObject(class) == [t |-> "object", class |-> class]
\* a function: what calling it does
JSFunction(body) == [t |-> "function", body |-> body]
\* a property of a context object read through a getter that throws
ThrowingGetter == [t |-> "accessor", body |-> "throws"]
\* typeof v === 'string'
IsString(v) == v.t = "string"
\* no value yet: the call has not returned
NoValue == [t |-> "none"]

---------------------------------------------------------------------------
(* Characters and the character classes of the regular expressions.        *)

LowerLetters == <<"a","b","c","d","e","f","g","h","i","j","k","l","m",
                  "n","o","p","q","r","s","t","u","v","w","x","y","z">>
UpperLetters == <<"A","B","C","D","E","F","G","H","I","J","K","L","M",
                  "N","O","P","Q","R","S","T","U","V","W","X","Y","Z">>
Digits == {"0","1","2","3","4","5","6","7","8","9"}

Range(f) == {f[k] : k \in DOMAIN f}

\* the i flag: two characters match when their lower-case forms are equal
ToLowerTable == [c \in Range(UpperLetters) |->
                    LowerLetters[CHOOSE k \in 1..26 : UpperLetters[k] = c]]
Lower(c) == IF c \in DOMAIN ToLowerTable THEN ToLowerTable[c] ELSE c
LowerStr(s) == [k \in 1..Len(s) |-> Lower(s[k])]

\* \w is [A-Za-z0-9_]
WordChars == Range(LowerLetters) \cup Range(UpperLetters) \cup Digits \cup {"_"}
IsWord(c) == c \in WordChars
\* \s (the ASCII white space)
SpaceChars == {" ", "\t", "\n", "\r", "\f"}
IsSpace(c) == c \in SpaceChars
\* . without the s flag matches everything but a line terminator
IsLineTerminator(c) == c \in {"\n", "\r"}

\* the grave accent U+0060, which a TLA+ string cannot hold, has a name
Backtick == "GRAVE"

Min(S) == CHOOSE m \in S : \A k \in S : m <= k

\* s.substring(0, n)
Substring0(s, n) == SubSeq(s, 1, IF n < Len(s) THEN n ELSE Len(s))

\* the literal lit (lower case) occurs in s at index i, letter case ignored
AtCI(s, i, lit) ==
    /\ i >= 1
    /\ i + Len(lit) - 1 <= Len(s)
    /\ \A k \in 1..Len(lit) : Lower(s[i + k - 1]) = lit[k]

\* the literal lit occurs in s at index i, letter case respected
AtCS(s, i, lit) ==
    /\ i >= 1
    /\ i + Len(lit) - 1 <= Len(s)
    /\ \A k \in 1..Len(lit) : s[i + k - 1] = lit[k]

\* s.includes(lit)
Includes(s, lit) == \E i \in 1..Len(s) : AtCS(s, i, lit)
IncludesCI(s, lit) == \E i \in 1..Len(s) : AtCI(s, i, lit)

\* index of the first character at or after i for which a greedy run of the
\* class stops: the first index >= i whose character is not in the class
\* (Len(s) + 1 when the run reaches the end)
RunEnd(s, i, class) ==
    LET stop == {k \in i..Len(s) : s[k] \notin class}
    IN  IF stop # {} THEN Min(stop)
        ELSE IF i > Len(s) THEN i ELSE Len(s) + 1

\* index of the first c at or after i, 0 when there is none
FirstChar(s, i, c) ==
    LET hit == {k \in i..Len(s) : s[k] = c}
    IN  IF hit = {} THEN 0 ELSE Min(hit)

\* String.prototype.replace with a global regular expression: scanning from
\* the left, the match starting at i (last[i] is its last index, 0 when the
\* expression does not match at i) is replaced by repl[i] and the scan goes
\* on after the match; an unmatched character is copied.
RECURSIVE ReplaceFrom(_, _, _, _)
ReplaceFrom(s, i, last, repl) ==
    IF i > Len(s) THEN <<>>
    ELSE IF last[i] # 0
         THEN repl[i] \o ReplaceFrom(s, last[i] + 1, last, repl)
         ELSE <<s[i]>> \o ReplaceFrom(s, i + 1, last, repl)

ReplaceAll(s, last, repl) == ReplaceFrom(s, 1, last, repl)

\* a replacement that is the same string at every match
Const(s, r) == [i \in 1..Len(s) |-> r]


\* first index at or after i whose character is in the class (Len(s) + 1 when
\* there is none): where a greedy run of the complemented class [^...] stops
RunEndNot(s, i, class) ==
    LET stop == {k \in i..Len(s) : s[k] \in class}
    IN  IF stop # {} THEN Min(stop)
        ELSE IF i > Len(s) THEN i ELSE Len(s) + 1

---------------------------------------------------------------------------
(* escapeHTML and encodeURI.                                               *)

entityMap ==
    [c \in {"&", "<", ">", "\"", "'", "/", Backtick, "="} |->
        CASE c = "&"  -> <<"&","a","m","p",";">>
          [] c = "<"  -> <<"&","l","t",";">>
          [] c = ">"  -> <<"&","g","t",";">>
          [] c = "\"" -> <<"&","q","u","o","t",";">>
          [] c = "'"  -> <<"&","#","x","2","7",";">>
          [] c = "/"  -> <<"&","#","x","2","F",";">>
          [] c = Backtick -> <<"&","#","x","6","0",";">>
          [] c = "="  -> <<"&","#","x","3","D",";">>]

RECURSIVE Flatten(_)
Flatten(ss) == IF ss = <<>> THEN <<>> ELSE Head(ss) \o Flatten(Tail(ss))

\* escapeHTML with the ampersand left out of the character class
escapeHTML_NoAmpersand(text) ==
    IF ~IsString(text) THEN <<>>
    ELSE Flatten([k \in 1..Len(text.s) |->
                    IF text.s[k] \in DOMAIN entityMap \ {"&"}
                    THEN entityMap[text.s[k]]
                    ELSE <<text.s[k]>>])

\* text.replace(/[&<>"'`=\/]/g, char => entityMap[char])
escapeHTML(text) ==
    IF ~IsString(text) THEN <<>>
    ELSE Flatten([k \in 1..Len(text.s) |->
                    IF text.s[k] \in DOMAIN entityMap
                    THEN entityMap[text.s[k]]
                    ELSE <<text.s[k]>>])

\* the characters encodeURI leaves alone
URIUnescaped ==
    WordChars \cup
    {";", "/", "?", ":", "@", "&", "=", "+", "$", ",", "#",
     "-", ".", "!", "~", "*", "'", "(", ")"}

\* the percent-encoding of the other ASCII characters
PercentTable ==
    [c \in {" ", "\"", "%", "<", ">", "\\", "^", Backtick, "{", "|", "}",
            "[", "]", "\t", "\n", "\r", "\f"} |->
        CASE c = " "  -> <<"%","2","0">>
          [] c = "\"" -> <<"%","2","2">>
          [] c = "%"  -> <<"%","2","5">>
          [] c = "<"  -> <<"%","3","C">>
          [] c = ">"  -> <<"%","3","E">>
          [] c = "\\" -> <<"%","5","C">>
          [] c = "^"  -> <<"%","5","E">>
          [] c = Backtick -> <<"%","6","0">>
          [] c = "{"  -> <<"%","7","B">>
          [] c = "|"  -> <<"%","7","C">>
          [] c = "}"  -> <<"%","7","D">>
          [] c = "["  -> <<"%","5","B">>
          [] c = "]"  -> <<"%","5","D">>
          [] c = "\t" -> <<"%","0","9">>
          [] c = "\n" -> <<"%","0","A">>
          [] c = "\r" -> <<"%","0","D">>
          [] c = "\f" -> <<"%","0","C">>]

\* a lone surrogate (U+D800), which a TLA+ string cannot hold, has a name
LoneSurrogate == "U+D800"

\* encodeURI throws URIError on a lone surrogate: the mark URIError stands
\* in the place of its result until the pass that called it has ended
URIError == "URIError"

encodeURI(s) ==
    IF LoneSurrogate \in Range(s) THEN <<URIError>>
    ELSE Flatten([k \in 1..Len(s) |->
                    IF s[k] \in URIUnescaped THEN <<s[k]>>
                    ELSE PercentTable[s[k]]])

---------------------------------------------------------------------------
(* The regular expressions of sanitizeHTML. Each Match operator gives the  *)
(* last index of the match that starts at index i of s, or 0 when the      *)
(* expression does not match there.                                        *)

Quotes == {"\"", "'"}
Str_script == <<"s","c","r","i","p","t">>
Str_style == <<"s","t","y","l","e">>
Str_javascript == <<"j","a","v","a">> \o Str_script
Str_data == <<"d","a","t","a">>
Str_vbscript == <<"v","b">> \o Str_script
Str_expression == <<"e","x","p","r","e","s","s","i","o","n">>
Str_atimport == <<"@","i","m","p","o","r","t">>
Str_blocked == <<"b","l","o","c","k","e","d">>
Str_href == <<"h","r","e","f">>
Str_title == <<"t","i","t","l","e">>
Str_src == <<"s","r","c">>
Str_alt == <<"a","l","t">>
Str_img == <<"i","m","g">>

\* /<name[^>]*>.*?<\/name>/gis : the opening tag runs to the first '>', the
\* lazy body to the first closing tag after it
BlockMatch(s, i, name) ==
    IF ~AtCI(s, i, <<"<">> \o name) THEN 0
    ELSE LET gt == FirstChar(s, i + 1 + Len(name), ">")
             close == <<"<", "/">> \o name \o <<">">>
             ends == {k \in (gt + 1)..Len(s) : AtCI(s, k, close)}
         IN  IF gt = 0 \/ ends = {} THEN 0
             ELSE Min(ends) + Len(close) - 1

\* (iframe|object|embed|applet|meta), tried in this order
StructuralTags ==
    << <<"i","f","r","a","m","e">>, <<"o","b","j","e","c","t">>,
       <<"e","m","b","e","d">>, <<"a","p","p","l","e","t">>,
       <<"m","e","t","a">> >>

\* /<(iframe|object|embed|applet|meta)[^>]*>.*?<\/\1>/gis
StructuralBlockMatch(s, i) ==
    LET ok == {n \in 1..Len(StructuralTags) :
                  BlockMatch(s, i, StructuralTags[n]) # 0}
    IN  IF ok = {} THEN 0 ELSE BlockMatch(s, i, StructuralTags[Min(ok)])

\* /<(iframe|object|embed|applet|meta)[^>]*\/?>/gi
StructuralTagMatch(s, i) ==
    IF \E n \in 1..Len(StructuralTags) :
          AtCI(s, i, <<"<">> \o StructuralTags[n])
    THEN LET n == Min({m \in 1..Len(StructuralTags) :
                          AtCI(s, i, <<"<">> \o StructuralTags[m])})
         IN  FirstChar(s, i + 1 + Len(StructuralTags[n]), ">")
    ELSE 0

\* the common head of the two event-handler expressions, \s*on\w+\s*=\s* :
\* the index after it, 0 when it does not match at i
HandlerHead(s, i) ==
    LET p == RunEnd(s, i, SpaceChars)
        w == RunEnd(s, p + 2, WordChars)
        e == RunEnd(s, w, SpaceChars)
    IN  IF ~AtCI(s, p, <<"o", "n">>) \/ w = p + 2 THEN 0
        ELSE IF e > Len(s) THEN 0
        ELSE IF s[e] # "=" THEN 0
        ELSE RunEnd(s, e + 1, SpaceChars)

\* /\s*on\w+\s*=\s*["'][^"']*["']/gi
QuotedHandlerMatch(s, i) ==
    LET q == HandlerHead(s, i)
    IN  IF q = 0 \/ q > Len(s) THEN 0
        ELSE IF s[q] \notin Quotes THEN 0
        ELSE LET c == RunEndNot(s, q + 1, Quotes)
             IN  IF c > Len(s) THEN 0 ELSE c

\* /\s*on\w+\s*=\s*[^>\s]+/gi
BareHandlerMatch(s, i) ==
    LET q == HandlerHead(s, i)
    IN  IF q = 0 \/ q > Len(s) THEN 0
        ELSE LET c == RunEndNot(s, q, {">"} \cup SpaceChars)
             IN  IF c = q THEN 0 ELSE c - 1

\* /scheme\s*:/gi
SchemeMatch(s, i, scheme) ==
    IF ~AtCI(s, i, scheme) THEN 0
    ELSE LET p == RunEnd(s, i + Len(scheme), SpaceChars)
         IN  IF p > Len(s) THEN 0
             ELSE IF s[p] = ":" THEN p ELSE 0

\* /expression\s*\([^)]*\)/gi
ExpressionMatch(s, i) ==
    IF ~AtCI(s, i, Str_expression) THEN 0
    ELSE LET p == RunEnd(s, i + Len(Str_expression), SpaceChars)
         IN  IF p > Len(s) THEN 0
             ELSE IF s[p] # "(" THEN 0
             ELSE LET c == RunEndNot(s, p + 1, {")"})
                  IN  IF c > Len(s) THEN 0 ELSE c

\* /@import/gi
ImportMatch(s, i) ==
    IF AtCI(s, i, Str_atimport) THEN i + Len(Str_atimport) - 1 ELSE 0

\* /<[^>]*>/g
AnyTagMatch(s, i) ==
    IF s[i] = "<" THEN FirstChar(s, i + 1, ">") ELSE 0

\* /<(\/?)([\w]+)[^>]*>/gi : where the tag name starts (after the optional
\* slash), and where it stops
TagNameStart(s, i) ==
    IF i + 1 <= Len(s) /\ s[i + 1] = "/" THEN i + 2 ELSE i + 1
TagNameStop(s, i) == RunEnd(s, TagNameStart(s, i), WordChars)
NamedTagMatch(s, i) ==
    IF s[i] # "<" \/ TagNameStop(s, i) = TagNameStart(s, i) THEN 0
    ELSE FirstChar(s, TagNameStop(s, i), ">")

safeTags ==
    { <<"b">>, <<"i">>, <<"u">>, <<"e","m">>, <<"s","t","r","o","n","g">>,
      <<"p">>, <<"b","r">>, <<"s","p","a","n">>, <<"d","i","v">> }

\* the callback of the tag pass: `<${slash}${tag.toLowerCase()}>` for a safe
\* tag, '' for any other
KeepSafeTag(s, i) ==
    LET tag == LowerStr(SubSeq(s, TagNameStart(s, i), TagNameStop(s, i) - 1))
        slash == IF TagNameStart(s, i) = i + 2 THEN <<"/">> ELSE <<>>
    IN  IF tag \in safeTags THEN <<"<">> \o slash \o tag \o <<">">>
        ELSE <<>>

\* /<a[^>]*>.*?<\/a>/gi : without the s flag the body holds no line
\* terminator
AnchorBlockMatch(s, i) ==
    IF ~AtCI(s, i, <<"<", "a">>) THEN 0
    ELSE LET gt == FirstChar(s, i + 2, ">")
             close == <<"<", "/", "a", ">">>
             ends == {k \in (gt + 1)..Len(s) :
                        /\ AtCI(s, k, close)
                        /\ \A m \in (gt + 1)..(k - 1) :
                              ~IsLineTerminator(s[m])}
         IN  IF gt = 0 \/ ends = {} THEN 0
             ELSE Min(ends) + Len(close) - 1

\* /<name\s+([^>]*?)>/gi : the attributes start after the white space and
\* stop before the first '>'
AttrsStart(s, i, name) == RunEnd(s, i + 1 + Len(name), SpaceChars)
AttrTagMatch(s, i, name) ==
    IF ~AtCI(s, i, <<"<">> \o name) THEN 0
    ELSE IF AttrsStart(s, i, name) = i + 1 + Len(name) THEN 0
    ELSE FirstChar(s, AttrsStart(s, i, name), ">")
Attrs(s, i, name) ==
    SubSeq(s, AttrsStart(s, i, name), AttrTagMatch(s, i, name) - 1)

\* attrs.match(/attr\s*=\s*["']([^"']+)["']/i) : the captured value of the
\* leftmost match as a one-element sequence, the empty sequence when there
\* is no match
AttrValueAt(attrs, p, attr) ==
    IF ~AtCI(attrs, p, attr) THEN <<>>
    ELSE LET e == RunEnd(attrs, p + Len(attr), SpaceChars)
         IN  IF e > Len(attrs) THEN <<>>
             ELSE IF attrs[e] # "=" THEN <<>>
             ELSE LET q == RunEnd(attrs, e + 1, SpaceChars)
                  IN  IF q > Len(attrs) THEN <<>>
                      ELSE IF attrs[q] \notin Quotes THEN <<>>
                      ELSE LET c == RunEndNot(attrs, q + 1, Quotes)
                           IN  IF c = q + 1 \/ c > Len(attrs) THEN <<>>
                               ELSE <<SubSeq(attrs, q + 1, c - 1)>>
AttrValue(attrs, attr) ==
    LET hits == {p \in 1..Len(attrs) : AttrValueAt(attrs, p, attr) # <<>>}
    IN  IF hits = {} THEN <<>> ELSE AttrValueAt(attrs, Min(hits), attr)

\* /^(https?:|mailto:)/i.test(href)
LinkSchemeOK(href) ==
    \/ AtCI(href, 1, <<"h","t","t","p",":">>)
    \/ AtCI(href, 1, <<"h","t","t","p","s",":">>)
    \/ AtCI(href, 1, <<"m","a","i","l","t","o",":">>)

\* /^(https?:|data:image\/)/i.test(src)
ImageSchemeOK(src) ==
    \/ AtCI(src, 1, <<"h","t","t","p",":">>)
    \/ AtCI(src, 1, <<"h","t","t","p","s",":">>)
    \/ AtCI(src, 1, <<"d","a","t","a",":","i","m","a","g","e","/">>)

\* the callback of the link pass
RebuildAnchor(s, i) ==
    LET attrs == Attrs(s, i, <<"a">>)
        href == AttrValue(attrs, Str_href)
        title == AttrValue(attrs, Str_title)
    IN  <<"<", "a">>
        \o (IF href # <<>> /\ LinkSchemeOK(href[1])
            THEN <<" ">> \o Str_href \o <<"=", "\"">> \o encodeURI(href[1])
                 \o <<"\"">>
            ELSE <<>>)
        \o (IF title # <<>>
            THEN <<" ">> \o Str_title \o <<"=", "\"">>
                 \o escapeHTML(JSString(title[1]))
                 \o <<"\"">>
            ELSE <<>>)
        \o <<">">>

\* the callback of the image pass
RebuildImage(s, i) ==
    LET attrs == Attrs(s, i, Str_img)
        src == AttrValue(attrs, Str_src)
        alt == AttrValue(attrs, Str_alt)
    IN  <<"<">> \o Str_img
        \o (IF src # <<>> /\ ImageSchemeOK(src[1])
            THEN <<" ">> \o Str_src \o <<"=", "\"">> \o encodeURI(src[1])
                 \o <<"\"">>
            ELSE <<>>)
        \o (IF alt # <<>>
            THEN <<" ">> \o Str_alt \o <<"=", "\"">>
                 \o escapeHTML(JSString(alt[1]))
                 \o <<"\"">>
            ELSE <<>>)
        \o <<">">>

---------------------------------------------------------------------------
(* sanitizeHTML: the passes, in the order of the code.                     *)

Matches(s, M(_, _)) == [i \in 1..Len(s) |-> M(s, i)]

\* the cut one character behind the limit
Truncate_Behind(s, maxLength) ==
    IF Len(s) > maxLength THEN Substring0(s, maxLength + 1) ELSE s

\* html.substring(0, maxLength) when html.length > maxLength
Truncate(s, maxLength) ==
    IF Len(s) > maxLength THEN Substring0(s, maxLength) ELSE s

RemoveScriptBlocks(s) ==
    LET M(x, i) == BlockMatch(x, i, Str_script)
    IN  ReplaceAll(s, Matches(s, M), Const(s, <<>>))

RemoveStyleBlocks(s) ==
    LET M(x, i) == BlockMatch(x, i, Str_style)
    IN  ReplaceAll(s, Matches(s, M), Const(s, <<>>))

RemoveStructuralBlocks(s) ==
    ReplaceAll(s, Matches(s, StructuralBlockMatch), Const(s, <<>>))

RemoveStructuralTags(s) ==
    ReplaceAll(s, Matches(s, StructuralTagMatch), Const(s, <<>>))

RemoveQuotedHandlers(s) ==
    ReplaceAll(s, Matches(s, QuotedHandlerMatch), Const(s, <<>>))

RemoveBareHandlers(s) ==
    ReplaceAll(s, Matches(s, BareHandlerMatch), Const(s, <<>>))

BlockScheme(s, scheme) ==
    LET M(x, i) == SchemeMatch(x, i, scheme)
    IN  ReplaceAll(s, Matches(s, M), Const(s, Str_blocked \o <<":">>))

BlockExpression(s) ==
    ReplaceAll(s, Matches(s, ExpressionMatch), Const(s, Str_blocked))

BlockImport(s) ==
    ReplaceAll(s, Matches(s, ImportMatch), Const(s, Str_blocked))

StripAllTags(s) ==
    ReplaceAll(s, Matches(s, AnyTagMatch), Const(s, <<>>))

KeepSafeTags(s) ==
    ReplaceAll(s, Matches(s, NamedTagMatch),
               [i \in 1..Len(s) |->
                   IF NamedTagMatch(s, i) # 0 THEN KeepSafeTag(s, i)
                   ELSE <<>>])

RemoveAnchors(s) ==
    ReplaceAll(s, Matches(s, AnchorBlockMatch), Const(s, <<>>))

RebuildAnchors(s) ==
    LET M(x, i) == AttrTagMatch(x, i, <<"a">>)
    IN  ReplaceAll(s, Matches(s, M),
                   [i \in 1..Len(s) |->
                       IF M(s, i) # 0 THEN RebuildAnchor(s, i) ELSE <<>>])

RemoveImages(s) ==
    LET M(x, i) ==
            IF AtCI(x, i, <<"<">> \o Str_img)
            THEN FirstChar(x, i + 1 + Len(Str_img), ">") ELSE 0
    IN  ReplaceAll(s, Matches(s, M), Const(s, <<>>))

RebuildImages(s) ==
    LET M(x, i) == AttrTagMatch(x, i, Str_img)
    IN  ReplaceAll(s, Matches(s, M),
                   [i \in 1..Len(s) |->
                       IF M(s, i) # 0 THEN RebuildImage(s, i) ELSE <<>>])

\* the passes up to and including the scheme and CSS neutralization
NeutralizePasses(s) ==
    BlockImport(BlockExpression(
        BlockScheme(BlockScheme(BlockScheme(
            RemoveBareHandlers(RemoveQuotedHandlers(
                RemoveStructuralTags(RemoveStructuralBlocks(
                    RemoveStyleBlocks(RemoveScriptBlocks(s))))))
        , Str_javascript), Str_data), Str_vbscript)))

FormattingPass(s, allowBasicFormatting) ==
    IF ~allowBasicFormatting THEN StripAllTags(s) ELSE KeepSafeTags(s)

LinkPass(s, allowLinks) ==
    IF ~allowLinks THEN RemoveAnchors(s) ELSE RebuildAnchors(s)

ImagePass(s, allowImages) ==
    IF ~allowImages THEN RemoveImages(s) ELSE RebuildImages(s)

DefaultMaxLength == 10000

\* what a call gives: the string returned, or the exception it throws
Sanitized(s) == [thrown |-> FALSE, ret |-> JSString(s)]
ThrewURIError == [thrown |-> TRUE, ret |-> JSUndefined]

\* the image pass and the final escapeHTML, unless the link pass threw
AfterLinkPass(linked, allowImages) ==
    IF URIError \in Range(linked) THEN ThrewURIError
    ELSE IF URIError \in Range(ImagePass(linked, allowImages))
         THEN ThrewURIError
    ELSE Sanitized(escapeHTML(JSString(ImagePass(linked, allowImages))))

\* sanitizeHTML(html, options)
sanitizeHTML(h, opts) ==
    IF ~IsString(h) THEN Sanitized(<<>>)
    ELSE AfterLinkPass(
             LinkPass(
                 FormattingPass(
                     NeutralizePasses(Truncate(h.s, opts.maxLength)),
                     opts.allowBasicFormatting),
                 opts.allowLinks),
             opts.allowImages)

---------------------------------------------------------------------------
(* The sanitizer's callers: the inputs and the calls.                      *)

\* the longest input, in fragments
MaxFragments == 3
\* a maxLength option short enough to cut the inputs
ShortMaxLength == 5

\* the pieces the input strings are built from
XssFragments ==
    { <<"<">>, <<">">>, <<"<", "b", ">">>, <<"/">>, <<"&">>, <<"\"">>,
      <<"o", "n">>, <<"x", "=">>,
      <<"J", "a", "v", "a">>, <<"s","c","r","i","p","t",":">> }

XssStrings ==
    {Flatten(fs) : fs \in UNION {[1..n -> XssFragments] : n \in 0..MaxFragments}}

\* values for which typeof is not 'string'
NonStrings == {JSUndefined, JSNull, JSNumber(1)}

XssOptions ==
    [allowBasicFormatting : BOOLEAN, allowLinks : BOOLEAN,
     allowImages : BOOLEAN, maxLength : {ShortMaxLength, DefaultMaxLength}]

CallIdle ==
    /\ call = [fn |-> "none"]
    /\ ret = NoValue
    /\ cpc = "off"

EvalIdle ==
    /\ expression = JSUndefined
    /\ context = <<>>
    /\ result = NoValue
    /\ compiled = FALSE
    /\ thrown = FALSE
    /\ resolved = {}
    /\ heap = <<>>
    /\ epc = "off"

InitXSS ==
    /\ html \in {JSString(s) : s \in XssStrings} \cup NonStrings
    /\ options \in XssOptions
    /\ output = NoValue
    /\ output2 = NoValue
    /\ xpc = "call"
    /\ EvalIdle
    /\ CallIdle

\* a call of sanitizeHTML(html, options)
SanitizeHTML ==
    /\ xpc = "call"
    /\ \E out \in {sanitizeHTML(html, options)} :
          /\ output' = out.ret
          /\ xpc' = IF out.thrown THEN "threw" ELSE "returned"
    /\ UNCHANGED <<html, options, output2>>
    /\ UNCHANGED evalVars
    /\ UNCHANGED callVars

\* the caller passes the result through sanitizeHTML once more
SanitizeAgain ==
    /\ xpc = "returned"
    /\ \E out \in {sanitizeHTML(output, options)} :
          /\ output2' = out.ret
          /\ xpc' = IF out.thrown THEN "threw" ELSE "returned twice"
    /\ UNCHANGED <<html, options, output>>
    /\ UNCHANGED evalVars
    /\ UNCHANGED callVars

\* one call of the sanitizer
NextXSS == SanitizeHTML
SpecXSS == InitXSS /\ [][NextXSS]_vars

\* a call of the sanitizer and a second call on its result
NextXSSTwice == SanitizeHTML \/ SanitizeAgain
SpecXSSTwice == InitXSS /\ [][NextXSSTwice]_vars

---------------------------------------------------------------------------
(* Properties of the sanitizer.                                            *)

Returned == xpc \in {"returned", "returned twice"} /\ IsString(html)

\* C1: the output of sanitizeHTML contains none of 'javascript:', 'data:',
\* 'vbscript:' in any letter case, whatever the input and the policy.
C1_NoSchemeInOutput ==
    Returned =>
        /\ ~IncludesCI(output.s, Str_javascript \o <<":">>)
        /\ ~IncludesCI(output.s, Str_data \o <<":">>)
        /\ ~IncludesCI(output.s, Str_vbscript \o <<":">>)

\* the characters the final pass escapes
RawSpecials == {"<", ">", "\"", "'", "/", Backtick, "="}

C3_Idempotent ==
    xpc = "returned twice" => output2 = output

\* on<word>, optional white space, then the escaped equals sign, at index p
EscapedHandlerAt(s, p) ==
    LET w == RunEnd(s, p + 2, WordChars)
    IN  /\ AtCI(s, p, <<"o", "n">>)
        /\ w > p + 2
        /\ AtCS(s, RunEnd(s, w, SpaceChars), entityMap["="])

\* C4: no event-handler attribute survives sanitizeHTML: the output holds
\* no on<word> followed, after optional white space, by the escaped equals
\* sign.
C4_NoHandlerInOutput ==
    Returned => \A p \in 1..Len(output.s) : ~EscapedHandlerAt(output.s, p)

---------------------------------------------------------------------------
(* secureEval: the gates.                                                  *)

\* /^[\d\w\s+\-*/.(),%]+$/
AllowedChars ==
    WordChars \cup SpaceChars \cup {"+", "-", "*", "/", ".", "(", ")", ",", "%"}
allowedPattern(s) == Len(s) >= 1 /\ \A k \in 1..Len(s) : s[k] \in AllowedChars

Str_constructor == <<"c","o","n","s","t","r","u","c","t","o","r">>

dangerousKeywords ==
    << <<"e","v","a","l">>, <<"F","u","n","c","t","i","o","n">>,
       <<"c","o","n","s","t","r","u","c","t","o","r">>,
       <<"_","_","p","r","o","t","o","_","_">>,
       <<"p","r","o","t","o","t","y","p","e">>,
       <<"i","m","p","o","r","t">>, <<"r","e","q","u","i","r","e">>,
       <<"p","r","o","c","e","s","s">>, <<"g","l","o","b","a","l">>,
       <<"w","i","n","d","o","w">>, <<"d","o","c","u","m","e","n","t">>,
       <<"a","l","e","r","t">>, <<"c","o","n","f","i","r","m">>,
       <<"p","r","o","m","p","t">>, <<"c","o","n","s","o","l","e">>,
       <<"s","e","t","T","i","m","e","o","u","t">>,
       <<"s","e","t","I","n","t","e","r","v","a","l">> >>

\* the keyword gate finding nothing
KeywordHits_None(s) == {}

\* the indexes of the keywords that expression.includes(keyword) finds
KeywordHits(s) ==
    {n \in 1..Len(dangerousKeywords) : Includes(s, dangerousKeywords[n])}

\* the keyword that stands leftmost in the expression
FirstKeyword_Leftmost(s) ==
    LET at(n) == Min({i \in 1..Len(s) : AtCS(s, i, dangerousKeywords[n])})
        first == CHOOSE n \in KeywordHits(s) :
                    \A m \in KeywordHits(s) : at(n) <= at(m)
    IN  dangerousKeywords[first]

\* the keyword at which the for loop returns: the first of the list that
\* occurs in the expression
FirstKeyword(s) == dangerousKeywords[Min(KeywordHits(s))]

---------------------------------------------------------------------------
(* The code new Function compiles: `"use strict"; return (${expression});` *)
(* The inputs hold digits, '/', '.', parentheses, identifiers and '++', so *)
(* the grammar below is the part of the language they can spell: decimal   *)
(* literals, null, regular-expression literals, identifiers, member        *)
(* access, calls, the increment before or after its operand, and division. *)

IsIdentStart(c) == c \in WordChars \ Digits
Str_null == <<"n","u","l","l">>

\* a syntax tree
NumNode(v) == [k |-> "num", v |-> v, a |-> <<>>, name |-> <<>>]
NullNode == [k |-> "null", v |-> JSNull, a |-> <<>>, name |-> <<>>]
RegexNode == [k |-> "regex", v |-> JSNull, a |-> <<>>, name |-> <<>>]
IdNode(name) == [k |-> "id", v |-> JSNull, a |-> <<>>, name |-> name]
MemberNode(obj, name) ==
    [k |-> "member", v |-> JSNull, a |-> <<obj>>, name |-> name]
CallNode(fn, args) ==
    [k |-> "call", v |-> JSNull, a |-> <<fn>> \o args, name |-> <<>>]
DivNode(l, r) == [k |-> "div", v |-> JSNull, a |-> <<l, r>>, name |-> <<>>]
\* ++target and target++
PreIncNode(target) ==
    [k |-> "preinc", v |-> JSNull, a |-> <<target>>, name |-> <<>>]
PostIncNode(target) ==
    [k |-> "postinc", v |-> JSNull, a |-> <<target>>, name |-> <<>>]

\* the outcome of parsing from an index: the tree and the index after it
Parsed(ast, pos) == [ok |-> TRUE, ast |-> ast, pos |-> pos]
SyntaxError == [ok |-> FALSE, ast |-> NullNode, pos |-> 0]

RECURSIVE Gcd(_, _)
Gcd(a, b) == IF b = 0 THEN a ELSE Gcd(b, a % b)

\* the fraction n/d in lowest terms
Reduced(neg, n, d) ==
    IF n = 0 THEN Finite(neg, 0, 1)
    ELSE Finite(neg, n \div Gcd(n, d), d \div Gcd(n, d))

RECURSIVE Pow10(_)
Pow10(k) == IF k = 0 THEN 1 ELSE 10 * Pow10(k - 1)

DigitValue(c) ==
    CASE c = "0" -> 0 [] c = "1" -> 1 [] c = "2" -> 2 [] c = "3" -> 3
      [] c = "4" -> 4 [] c = "5" -> 5 [] c = "6" -> 6 [] c = "7" -> 7
      [] c = "8" -> 8 [] c = "9" -> 9

\* the value of a run of decimal digits
RECURSIVE DigitsValue(_)
DigitsValue(ds) ==
    IF ds = <<>> THEN 0
    ELSE 10 * DigitsValue(SubSeq(ds, 1, Len(ds) - 1)) + DigitValue(ds[Len(ds)])

\* a decimal literal at index i (a digit, or '.' and a digit): in strict
\* code an integer part of several digits may not start with 0, and no
\* identifier or digit may follow the literal at once
ParseNumber(s, i) ==
    LET intEnd == RunEnd(s, i, Digits)
        hasDot == intEnd <= Len(s) /\ s[intEnd] = "."
        fracEnd == IF hasDot THEN RunEnd(s, intEnd + 1, Digits) ELSE intEnd
        int == SubSeq(s, i, intEnd - 1)
        frac == IF hasDot THEN SubSeq(s, intEnd + 1, fracEnd - 1) ELSE <<>>
    IN  IF Len(int) > 1 /\ int[1] = "0" THEN SyntaxError
        ELSE IF fracEnd <= Len(s) /\ IsIdentStart(s[fracEnd]) THEN SyntaxError
        ELSE Parsed(NumNode(Reduced(FALSE,
                        DigitsValue(int) * Pow10(Len(frac)) + DigitsValue(frac),
                        Pow10(Len(frac)))),
                    fracEnd)

\* the body of a regular-expression literal made of these characters is a
\* pattern when its parentheses are balanced
RECURSIVE Depth(_, _)
Depth(body, k) ==
    IF k = 0 THEN 0
    ELSE Depth(body, k - 1)
         + (IF body[k] = "(" THEN 1 ELSE IF body[k] = ")" THEN -1 ELSE 0)
ValidPattern(body) ==
    /\ \A k \in 1..Len(body) : Depth(body, k) >= 0
    /\ Depth(body, Len(body)) = 0

\* the flags of a regular-expression literal: letters of dgimsuvy, none
\* twice, u and v not together
ValidFlags(flags) ==
    /\ \A k \in 1..Len(flags) :
          flags[k] \in {"d", "g", "i", "m", "s", "u", "v", "y"}
    /\ \A k, m \in 1..Len(flags) : k # m => flags[k] # flags[m]
    /\ ~(\E k, m \in 1..Len(flags) : flags[k] = "u" /\ flags[m] = "v")

\* a '/' where an operand is expected at index i: '//' starts a comment
\* that runs over the closing ');', anything else a regular-expression
\* literal up to the next '/', followed by its flags
ParseRegex(s, i) ==
    LET close == FirstChar(s, i + 1, "/")
        flagsEnd == RunEnd(s, close + 1, WordChars)
    IN  IF close = 0 \/ close = i + 1 THEN SyntaxError
        ELSE IF ~ValidPattern(SubSeq(s, i + 1, close - 1)) THEN SyntaxError
        ELSE IF ~ValidFlags(SubSeq(s, close + 1, flagsEnd - 1)) THEN SyntaxError
        ELSE Parsed(RegexNode, flagsEnd)

\* white space between tokens is skipped; the expressions hold no line
\* terminator
SkipSpace(s, i) == RunEnd(s, i, SpaceChars)

RECURSIVE ParsePrimary(_, _), ParsePostfix(_, _), ParseDivision(_, _),
          ParseDivisionRest(_, _), ParseUnary(_, _), ParseOperand(_, _),
          PostfixAt(_, _, _)

\* PrimaryExpression, behind white space
ParsePrimary(s, from) == ParseOperand(s, SkipSpace(s, from))

\* PrimaryExpression
ParseOperand(s, i) ==
    IF i > Len(s) THEN SyntaxError
    ELSE IF s[i] \in Digits THEN ParseNumber(s, i)
    ELSE IF s[i] = "." /\ i + 1 <= Len(s) /\ s[i + 1] \in Digits
         THEN ParseNumber(s, i)
    ELSE IF IsIdentStart(s[i])
         THEN LET e == RunEnd(s, i, WordChars)
                  name == SubSeq(s, i, e - 1)
              IN  Parsed(IF name = Str_null THEN NullNode ELSE IdNode(name), e)
    ELSE IF s[i] = "("
         THEN LET inner == ParseDivision(s, i + 1)
                  close == SkipSpace(s, inner.pos)
              IN  IF ~inner.ok \/ close > Len(s) THEN SyntaxError
                  ELSE IF s[close] # ")" THEN SyntaxError
                  ELSE Parsed(inner.ast, close + 1)
    ELSE IF s[i] = "/" THEN ParseRegex(s, i)
    ELSE SyntaxError

\* a parsed operand followed by member accesses and calls
ParsePostfix(s, left) ==
    IF ~left.ok THEN left
    ELSE PostfixAt(s, left, SkipSpace(s, left.pos))

\* the member access or call that starts at index p behind the operand
PostfixAt(s, left, p) ==
    IF p > Len(s) THEN left
    ELSE IF s[p] = "."
         THEN LET n == SkipSpace(s, p + 1)
                  e == RunEnd(s, n, WordChars)
              IN  IF n > Len(s) THEN SyntaxError
                  ELSE IF ~IsIdentStart(s[n]) THEN SyntaxError
                  ELSE ParsePostfix(s,
                          Parsed(MemberNode(left.ast, SubSeq(s, n, e - 1)), e))
    ELSE IF s[p] = "("
         THEN IF SkipSpace(s, p + 1) <= Len(s) /\ s[SkipSpace(s, p + 1)] = ")"
              THEN ParsePostfix(s, Parsed(CallNode(left.ast, <<>>),
                                          SkipSpace(s, p + 1) + 1))
              ELSE LET arg == ParseDivision(s, p + 1)
                       close == SkipSpace(s, arg.pos)
                   IN  IF ~arg.ok \/ close > Len(s) THEN SyntaxError
                       ELSE IF s[close] # ")" THEN SyntaxError
                       ELSE ParsePostfix(s,
                               Parsed(CallNode(left.ast, <<arg.ast>>),
                                      close + 1))
    ELSE left

\* the operand of '++' is an identifier or a member access, in
\* parentheses or not; anything else is an early error
IsTarget(ast) == ast.k \in {"id", "member"}

\* a parsed operand followed by '++' or not
ParsePostInc(s, left) ==
    IF ~left.ok \/ ~AtCS(s, SkipSpace(s, left.pos), <<"+", "+">>) THEN left
    ELSE IF ~IsTarget(left.ast) THEN SyntaxError
    ELSE Parsed(PostIncNode(left.ast), SkipSpace(s, left.pos) + 2)

\* the operand of a prefix '++', parsed
ParsePreInc(operand) ==
    IF ~operand.ok \/ ~IsTarget(operand.ast) THEN SyntaxError
    ELSE Parsed(PreIncNode(operand.ast), operand.pos)

\* UnaryExpression
ParseUnary(s, i) ==
    IF AtCS(s, SkipSpace(s, i), <<"+", "+">>)
    THEN ParsePreInc(ParseUnary(s, SkipSpace(s, i) + 2))
    ELSE ParsePostInc(s, ParsePostfix(s, ParsePrimary(s, i)))

\* '//' where an operator may stand starts a comment that runs to the end
CommentAt(s, i) == AtCS(s, i, <<"/", "/">>)

\* a parsed left operand followed by divisions, up to a comment
ParseDivisionRest(s, left) ==
    IF ~left.ok \/ SkipSpace(s, left.pos) > Len(s) THEN left
    ELSE IF s[SkipSpace(s, left.pos)] # "/" THEN left
    ELSE IF CommentAt(s, SkipSpace(s, left.pos)) THEN left
    ELSE LET right == ParseUnary(s, SkipSpace(s, left.pos) + 1)
         IN  IF ~right.ok THEN SyntaxError
             ELSE ParseDivisionRest(s,
                     Parsed(DivNode(left.ast, right.ast), right.pos))

\* MultiplicativeExpression
ParseDivision(s, i) == ParseDivisionRest(s, ParseUnary(s, i))

\* the statement `return (${expression});` : the tree of its operand, which
\* ends at the closing ');' or at a comment that hides it
ParseBody(expr) ==
    LET s == <<"(">> \o expr \o <<")">>
        whole == ParseDivision(s, 1)
    IN  IF ~whole.ok THEN SyntaxError
        ELSE IF SkipSpace(s, whole.pos) = Len(s) + 1 THEN whole
        ELSE IF CommentAt(s, SkipSpace(s, whole.pos)) THEN whole
        ELSE SyntaxError

---------------------------------------------------------------------------
(* Running the compiled function.                                          *)

\* ToNumber: null is +0, undefined and the objects and functions are NaN
ToNumber(v) ==
    IF v.t = "number" THEN v
    ELSE IF v.t = "null" THEN Finite(FALSE, 0, 1)
    ELSE NaNValue

\* the quotient of two numbers
Divide(x, y) ==
    LET neg == x.neg # y.neg
    IN  IF x.k = "NaN" \/ y.k = "NaN" THEN NaNValue
        ELSE IF x.k = "infinite"
             THEN IF y.k = "infinite" THEN NaNValue ELSE Infinite(neg)
        ELSE IF y.k = "infinite" THEN Finite(neg, 0, 1)
        ELSE IF y.n = 0
             THEN IF x.n = 0 THEN NaNValue ELSE Infinite(neg)
        ELSE Reduced(neg, x.n * y.d, x.d * y.n)

\* the identifiers the global scope binds among those the inputs can spell
GlobalScope ==
    (<<"N","a","N">> :> NaNValue)
    @@ (<<"u","n","d","e","f","i","n","e","d">> :> JSUndefined)
    @@ (<<"I","n","f","i","n","i","t","y">> :> Infinite(FALSE))
    @@ (<<"J","S","O","N">> :> JSObject("JSON"))

\* the outcome of evaluating: a value, or an exception; ambient holds the
\* identifiers that were resolved in the global scope
Value(v, ambient) == [threw |-> FALSE, v |-> v, ambient |-> ambient]
Threw == [threw |-> TRUE, v |-> JSUndefined, ambient |-> {}]

Str_abs == <<"a","b","s">>
Str_JSON == <<"J","S","O","N">>

\* calling a function value with the arguments given
Apply(fn, args) ==
    IF fn.t # "function" THEN Threw
    ELSE IF fn.body = "throws" THEN Threw
    ELSE IF fn.body = "returns 1" THEN Value(JSNumber(1), {})
    ELSE IF fn.body = "Number"
         THEN Value(IF args = <<>> THEN JSNumber(0) ELSE ToNumber(args[1]), {})
    ELSE IF fn.body = "abs"
         THEN Value(IF args = <<>> THEN NaNValue
                    ELSE [ToNumber(args[1]) EXCEPT !.neg = FALSE], {})
    ELSE IF fn.body = "parseFloat"
         THEN \* the number read back from its decimal form; -0 prints as 0
              Value(IF args = <<>> THEN NaNValue
                    ELSE IF args[1].t # "number" THEN NaNValue
                    ELSE IF args[1].k = "finite" /\ args[1].n = 0
                         THEN JSNumber(0)
                    ELSE args[1], {})
    ELSE \* parseInt: the integer part of the decimal form of a finite number
         Value(IF args = <<>> THEN NaNValue
               ELSE IF args[1].t # "number" THEN NaNValue
               ELSE IF args[1].k # "finite" THEN NaNValue
               ELSE Finite(args[1].neg /\ args[1].n # 0,
                           args[1].n \div args[1].d, 1), {})

\* x + 1
PlusOne(x) ==
    IF x.k # "finite" THEN x
    ELSE IF ~x.neg THEN Reduced(FALSE, x.n + x.d, x.d)
    ELSE IF x.n > x.d THEN Reduced(TRUE, x.n - x.d, x.d)
    ELSE Reduced(FALSE, x.d - x.n, x.d)

\* what an evaluation works on: the parameters of the compiled function,
\* which it may assign, and the properties written on objects that outlive
\* it (Math, JSON, the global object, the functions), by object and name
Store(locals, written) == [locals |-> locals, heap |-> written]
NoWrites == <<>>
GlobalThis == JSObject("globalThis")

\* the outcome of evaluating in a store: a value or an exception, and the
\* store as the evaluation leaves it
Ran(v, ambient, store) ==
    [threw |-> FALSE, v |-> v, ambient |-> ambient, store |-> store]
Faulted(store) ==
    [threw |-> TRUE, v |-> JSUndefined, ambient |-> {}, store |-> store]

\* a property as the host defines it: of those of the objects in scope the
\* inputs spell Math.abs only
BuiltIn(obj, name) ==
    IF obj = JSObject("Math") /\ name = Str_abs THEN JSFunction("abs")
    ELSE JSUndefined

\* obj[name]
ReadProperty(obj, name, written) ==
    IF <<obj, name>> \in DOMAIN written THEN written[<<obj, name>>]
    ELSE BuiltIn(obj, name)

\* the object of a regular-expression literal is made by the evaluation
\* and dropped with it
Outlives(obj) ==
    obj.t = "function" \/ (obj.t = "object" /\ obj.class # "RegExp")

\* obj[name] = v, the property being writable or new
WriteProperty(obj, name, v, written) ==
    IF Outlives(obj) THEN (<<obj, name>> :> v) @@ written ELSE written

\* the value of ++x or x++, old being x as a number
IncValue(prefix, old) == IF prefix THEN PlusOne(old) ELSE old

\* ++ on an identifier: a parameter is assigned; JSON is a writable
\* property of the global object; NaN, undefined and Infinity are not
\* writable and an unknown name is not resolvable, which throw
UpdateBinding(name, prefix, store) ==
    IF name \in DOMAIN store.locals
    THEN Ran(IncValue(prefix, ToNumber(store.locals[name])), {},
             Store([store.locals EXCEPT
                       ![name] = PlusOne(ToNumber(store.locals[name]))],
                   store.heap))
    ELSE IF name = Str_JSON
    THEN Ran(IncValue(prefix,
                 ToNumber(IF <<GlobalThis, name>> \in DOMAIN store.heap
                          THEN store.heap[<<GlobalThis, name>>]
                          ELSE JSObject("JSON"))),
             {name},
             Store(store.locals,
                   WriteProperty(GlobalThis, name,
                       PlusOne(ToNumber(
                           IF <<GlobalThis, name>> \in DOMAIN store.heap
                           THEN store.heap[<<GlobalThis, name>>]
                           ELSE JSObject("JSON"))),
                       store.heap)))
    ELSE Faulted(store)

\* ++ on obj.name, obj evaluated: null and undefined have no properties,
\* and in strict code a property cannot be written on a number
UpdateProperty(obj, name, prefix) ==
    IF obj.threw THEN obj
    ELSE IF obj.v.t \notin {"object", "function"} THEN Faulted(obj.store)
    ELSE Ran(IncValue(prefix,
                 ToNumber(ReadProperty(obj.v, name, obj.store.heap))),
             obj.ambient,
             Store(obj.store.locals,
                   WriteProperty(obj.v, name,
                       PlusOne(ToNumber(
                           ReadProperty(obj.v, name, obj.store.heap))),
                       obj.store.heap)))

\* a call, the function and the argument evaluated in this order
CallValue(fn, arg, called) ==
    IF fn.threw THEN fn
    ELSE IF arg.threw THEN arg
    ELSE IF called.threw THEN Faulted(arg.store)
    ELSE Ran(called.v, fn.ambient \cup arg.ambient, arg.store)

RECURSIVE Evaluate(_, _)
Evaluate(ast, store) ==
    CASE ast.k = "num" -> Ran(ast.v, {}, store)
      [] ast.k = "null" -> Ran(JSNull, {}, store)
      [] ast.k = "regex" -> Ran(JSObject("RegExp"), {}, store)
      [] ast.k = "id" ->
            IF ast.name \in DOMAIN store.locals
            THEN Ran(store.locals[ast.name], {}, store)
            ELSE IF <<GlobalThis, ast.name>> \in DOMAIN store.heap
                 THEN Ran(store.heap[<<GlobalThis, ast.name>>], {ast.name},
                          store)
            ELSE IF ast.name \in DOMAIN GlobalScope
                 THEN Ran(GlobalScope[ast.name], {ast.name}, store)
            ELSE Faulted(store)
      [] ast.k = "member" ->
            LET obj == Evaluate(ast.a[1], store)
            IN  IF obj.threw THEN obj
                ELSE IF obj.v.t \in {"null", "undefined"}
                     THEN Faulted(obj.store)
                ELSE Ran(ReadProperty(obj.v, ast.name, obj.store.heap),
                         obj.ambient, obj.store)
      [] ast.k \in {"preinc", "postinc"} ->
            IF ast.a[1].k = "id"
            THEN UpdateBinding(ast.a[1].name, ast.k = "preinc", store)
            ELSE UpdateProperty(Evaluate(ast.a[1].a[1], store),
                                ast.a[1].name, ast.k = "preinc")
      [] ast.k = "call" ->
            LET fn == Evaluate(ast.a[1], store)
                arg == IF fn.threw THEN fn
                       ELSE IF Len(ast.a) > 1
                            THEN Evaluate(ast.a[2], fn.store)
                       ELSE Ran(JSUndefined, {}, fn.store)
                called == Apply(fn.v, IF Len(ast.a) > 1 THEN <<arg.v>> ELSE <<>>)
            IN  CallValue(fn, arg, called)
      [] ast.k = "div" ->
            LET l == Evaluate(ast.a[1], store)
                r == IF l.threw THEN l ELSE Evaluate(ast.a[2], l.store)
            IN  IF l.threw THEN l
                ELSE IF r.threw THEN r
                ELSE Ran(Divide(ToNumber(l.v), ToNumber(r.v)),
                         l.ambient \cup r.ambient, r.store)

---------------------------------------------------------------------------
(* secureEval.                                                             *)

Str_Math == <<"M","a","t","h">>
Str_parseInt == <<"p","a","r","s","e","I","n","t">>
Str_parseFloat == <<"p","a","r","s","e","F","l","o","a","t">>
Str_Number == <<"N","u","m","b","e","r">>

\* { Math, parseInt, parseFloat, Number, ...context }
safeContext(ctx) ==
    ctx @@ (Str_Math :> JSObject("Math"))
        @@ (Str_parseInt :> JSFunction("parseInt"))
        @@ (Str_parseFloat :> JSFunction("parseFloat"))
        @@ (Str_Number :> JSFunction("Number"))

\* {Math, parseInt, parseFloat, Number, ...context} reads every property of
\* the context; a getter that throws ends the call, no try block is open yet
SpreadThrows(ctx) == \E name \in DOMAIN ctx : ctx[name].t = "accessor"

\* the words that cannot name a parameter of a strict function
ReservedWords ==
    {<<"b","r","e","a","k">>, <<"c","a","s","e">>, <<"c","a","t","c","h">>,
     <<"c","l","a","s","s">>, <<"c","o","n","s","t">>,
     <<"c","o","n","t","i","n","u","e">>,
     <<"d","e","b","u","g","g","e","r">>, <<"d","e","f","a","u","l","t">>,
     <<"d","e","l","e","t","e">>, <<"d","o">>, <<"e","l","s","e">>,
     <<"e","n","u","m">>, <<"e","x","p","o","r","t">>,
     <<"e","x","t","e","n","d","s">>, <<"f","a","l","s","e">>,
     <<"f","i","n","a","l","l","y">>, <<"f","o","r">>,
     <<"f","u","n","c","t","i","o","n">>, <<"i","f">>,
     <<"i","m","p","o","r","t">>, <<"i","n">>,
     <<"i","n","s","t","a","n","c","e","o","f">>, <<"n","e","w">>,
     <<"n","u","l","l">>, <<"r","e","t","u","r","n">>,
     <<"s","u","p","e","r">>, <<"s","w","i","t","c","h">>,
     <<"t","h","i","s">>, <<"t","h","r","o","w">>, <<"t","r","u","e">>,
     <<"t","r","y">>, <<"t","y","p","e","o","f">>, <<"v","a","r">>,
     <<"v","o","i","d">>, <<"w","h","i","l","e">>, <<"w","i","t","h">>,
     <<"i","m","p","l","e","m","e","n","t","s">>,
     <<"i","n","t","e","r","f","a","c","e">>, <<"l","e","t">>,
     <<"p","a","c","k","a","g","e">>, <<"p","r","i","v","a","t","e">>,
     <<"p","r","o","t","e","c","t","e","d">>, <<"p","u","b","l","i","c">>,
     <<"s","t","a","t","i","c">>, <<"y","i","e","l","d">>,
     <<"e","v","a","l">>, <<"a","r","g","u","m","e","n","t","s">>}

\* a key of the context can name a parameter of a strict function
IsIdentifier(name) ==
    /\ name # <<>>
    /\ IsIdentStart(name[1])
    /\ \A k \in 1..Len(name) : name[k] \in WordChars
    /\ name \notin ReservedWords

\* new Function(...Object.keys(safeContext), body) throws a SyntaxError
\* when a key is no parameter name or the body does not parse
Compiles(expr, ctx) ==
    /\ \A name \in DOMAIN safeContext(ctx) : IsIdentifier(name)
    /\ ParseBody(expr).ok

Msg_NotString == "Expression must be a string"
Msg_Chars == "Expression contains disallowed characters"
Msg_Keyword == "Dangerous keyword detected: "
Msg_Function == "Expression cannot evaluate to a function"
Msg_Failed == "Expression evaluation failed"

\* the result object; an error is a message and, for a keyword, the keyword
Result(success, value, error) ==
    [success |-> success, value |-> value, error |-> error]
Error(msg, detail) == [t |-> "string", msg |-> msg, detail |-> detail]
Failure(msg, detail) == Result(FALSE, JSNull, Error(msg, detail))

\* what a call leaves: the result returned (or an exception thrown to the
\* caller), whether new Function was reached, the identifiers the
\* compiled code resolved in the global scope, and the properties written
\* on objects that outlive the call
Outcome(res, reachedCompile, threwOut, ambient, written) ==
    [result |-> res, compiled |-> reachedCompile, thrown |-> threwOut,
     ambient |-> ambient, heap |-> written]

\* the catch clause: the fault becomes the fixed message
CatchClause(written) ==
    Outcome(Failure(Msg_Failed, <<>>), TRUE, FALSE, {}, written)

\* the try block without the check of the type of the value
TryEvaluate_NoFunctionCheck(expr, ctx, written) ==
    IF ~Compiles(expr, ctx) THEN CatchClause(written)
    ELSE LET run == Evaluate(ParseBody(expr).ast,
                             Store(safeContext(ctx), written))
         IN  IF run.threw THEN CatchClause(run.store.heap)
             ELSE Outcome(Result(TRUE, run.v, JSNull), TRUE, FALSE,
                          run.ambient, run.store.heap)

\* the try block and its catch: compile, run, check the type of the value
TryEvaluate(expr, ctx, written) ==
    IF ~Compiles(expr, ctx) THEN CatchClause(written)
    ELSE LET run == Evaluate(ParseBody(expr).ast,
                             Store(safeContext(ctx), written))
         IN  IF run.threw THEN CatchClause(run.store.heap)
             ELSE IF run.v.t = "function"
             THEN Outcome(Failure(Msg_Function, <<>>), TRUE, FALSE,
                          run.ambient, run.store.heap)
             ELSE Outcome(Result(TRUE, run.v, JSNull), TRUE, FALSE,
                          run.ambient, run.store.heap)

\* secureEval(expression, context), called when the objects that outlive
\* the calls hold the properties written
secureEval(expr, ctx, written) ==
    IF ~IsString(expr)
    THEN Outcome(Failure(Msg_NotString, <<>>), FALSE, FALSE, {}, written)
    ELSE IF ~allowedPattern(expr.s)
    THEN Outcome(Failure(Msg_Chars, <<>>), FALSE, FALSE, {}, written)
    ELSE IF KeywordHits(expr.s) # {}
    THEN Outcome(Failure(Msg_Keyword, FirstKeyword(expr.s)), FALSE, FALSE, {},
                 written)
    ELSE IF SpreadThrows(ctx)
    THEN Outcome(NoValue, FALSE, TRUE, {}, written)
    ELSE TryEvaluate(expr.s, ctx, written)

---------------------------------------------------------------------------
(* The evaluator's callers: the inputs and the call.                       *)

\* the longest expression, in fragments
MaxExprFragments == 3

\* the pieces the expressions are built from
EvalFragments ==
    { <<"0">>, <<"1">>, <<"/">>, <<"(">>, <<")">>, <<".">>, <<"a">>, <<"g">>,
      Str_Math, Str_null, <<"J","S","O","N">>, <<"e","v","a","l">>,
      Str_constructor, <<";">> }

EvalStrings ==
    {Flatten(fs) :
        fs \in UNION {[1..n -> EvalFragments] : n \in 0..MaxExprFragments}}

\* the contexts: none, a variable and a function, a function that throws,
\* the keys of an array, and a property whose getter throws
EvalContexts ==
    { <<>>,
      (<<"a">> :> JSNumber(2)) @@ (<<"g">> :> JSFunction("returns 1")),
      (<<"a">> :> JSNull) @@ (<<"g">> :> JSFunction("throws")),
      (<<"0">> :> JSNumber(1)),
      (<<"a">> :> ThrowingGetter) }

XssIdle ==
    /\ html = JSUndefined
    /\ options = [allowBasicFormatting |-> FALSE, allowLinks |-> FALSE,
                  allowImages |-> FALSE, maxLength |-> DefaultMaxLength]
    /\ output = NoValue
    /\ output2 = NoValue
    /\ xpc = "off"

InitEval ==
    /\ expression \in {JSString(s) : s \in EvalStrings} \cup NonStrings
    /\ context \in EvalContexts
    /\ result = NoValue
    /\ compiled = FALSE
    /\ thrown = FALSE
    /\ resolved = {}
    /\ heap = NoWrites
    /\ epc = "call"
    /\ XssIdle
    /\ CallIdle

\* a call of secureEval(expression, context)
SecureEval ==
    /\ epc = "call"
    /\ \E out \in {secureEval(expression, context, heap)} :
           /\ result' = out.result
           /\ compiled' = out.compiled
           /\ thrown' = out.thrown
           /\ resolved' = out.ambient
           /\ heap' = out.heap
    /\ epc' = "returned"
    /\ UNCHANGED <<expression, context>>
    /\ UNCHANGED xssVars
    /\ UNCHANGED callVars

NextEval == SecureEval
SpecEval == InitEval /\ [][NextEval]_vars

---------------------------------------------------------------------------
(* Properties of secureEval.                                               *)

\* the call came back with a result object
Answered == epc = "returned" /\ ~thrown

\* the expression is a string that holds one of the banned tokens
HoldsBannedToken ==
    /\ IsString(expression)
    /\ \E k \in 1..Len(dangerousKeywords) :
          Includes(expression.s, dangerousKeywords[k])

\* C5: an expression that holds a banned token is answered, whatever the
\* context, with success = false, value = null and an error, and is never
\* compiled or run.
C5_BannedTokenRejected ==
    (epc = "returned" /\ HoldsBannedToken) =>
        /\ ~thrown
        /\ result.success = FALSE
        /\ result.value = JSNull
        /\ result.error # JSNull
        /\ ~compiled

\* a banned token in an expression made of allowed characters only: the
\* keyword gate is what stops it
C5_Witness ==
    /\ epc = "returned"
    /\ HoldsBannedToken
    /\ allowedPattern(expression.s)
    /\ context # <<>>
    /\ result.error # JSNull
    /\ result.error.msg = Msg_Keyword

\* the expression is a string with a character outside the allow-list, or
\* the empty string
HoldsDisallowedChar ==
    /\ IsString(expression)
    /\ \/ expression.s = <<>>
       \/ \E k \in 1..Len(expression.s) : expression.s[k] \notin AllowedChars

\* the entry of the blocklist that occurs in the expression and has no
\* entry before it in the list that occurs too
FirstListed ==
    LET n == CHOOSE n \in 1..Len(dangerousKeywords) :
                /\ Includes(expression.s, dangerousKeywords[n])
                /\ \A m \in 1..(n - 1) :
                      ~Includes(expression.s, dangerousKeywords[m])
    IN  dangerousKeywords[n]

C6_OnlyBindingsResolved ==
    (Answered /\ result.success) => resolved = {}

\* what the compiled expression produces, when it compiles and runs
Produced ==
    IF IsString(expression) /\ ~SpreadThrows(context)
    THEN IF Compiles(expression.s, context)
         THEN Evaluate(ParseBody(expression.s).ast,
                       Store(safeContext(context), NoWrites))
         ELSE Threw
    ELSE Threw

\* the call got past the gates and its expression produced a function
ProducedFunction ==
    /\ compiled
    /\ ~Produced.threw
    /\ Produced.v.t = "function"

\* C7: no function is handed back: a successful result never holds a
\* function, and an expression that produces one is answered with
\* success = false, an error and value = null.
C7_NoFunctionReturned ==
    Answered =>
        /\ result.success => result.value.t # "function"
        /\ ProducedFunction =>
              /\ result.success = FALSE
              /\ result.error # JSNull
              /\ result.value = JSNull

\* an expression that names a function of the context or a default one
C7_Witness ==
    /\ Answered
    /\ ProducedFunction
    /\ result.error # JSNull
    /\ result.error.msg = Msg_Function

\* C8: no successful result holds a number that is NaN or infinite.
C8_FiniteNumbersOnly ==
    (Answered /\ result.success /\ result.value.t = "number") =>
        result.value.k = "finite"

\* C9: a successful result has a value that is neither null nor undefined
\* and a null error; a failed one has a string error and a null value.
C9_ResultInvariant ==
    Answered =>
        IF result.success
        THEN /\ result.value \notin {JSNull, JSUndefined}
             /\ result.error = JSNull
        ELSE /\ result.error # JSNull
             /\ result.error.t = "string"
             /\ result.value = JSNull

\* C10: every call returns a result object and throws nothing; a fault of
\* compiling or running becomes success = false with the fixed message.
C10_Total ==
    epc = "returned" =>
        /\ ~thrown
        /\ DOMAIN result = {"success", "value", "error"}
        /\ (compiled /\ Produced.threw) =>
              result = Failure(Msg_Failed, <<>>)

---------------------------------------------------------------------------
(* Objects and arrays, and the lookup of a property through the prototype  *)
(* chain.                                                                  *)

\* an object made by a literal or by JSON.parse: its own properties
PlainObject(own) == [t |-> "object", class |-> "Object", own |-> own]
\* an array: its elements
JSArray(items) == [t |-> "object", class |-> "Array", items |-> items]

\* true and false
JSBoolean(b) == [t |-> "boolean", b |-> b]

\* typeof v
TypeOf(v) == IF v.t = "null" THEN "object" ELSE v.t

\* !v is false
Truthy(v) ==
    CASE v.t \in {"undefined", "null"} -> FALSE
      [] v.t = "boolean" -> v.b
      [] v.t = "string" -> v.s # <<>>
      [] v.t = "number" -> v.k # "NaN" /\ ~(v.k = "finite" /\ v.n = 0)
      [] OTHER -> TRUE

Str_length == <<"l","e","n","g","t","h">>
Str_proto == <<"_","_","p","r","o","t","o","_","_">>
Str_prototype == <<"p","r","o","t","o","t","y","p","e">>

\* the own properties of Object.prototype
ObjectPrototypeNames ==
    {<<"c","o","n","s","t","r","u","c","t","o","r">>,
     <<"_","_","d","e","f","i","n","e","G","e","t","t","e","r","_","_">>,
     <<"_","_","d","e","f","i","n","e","S","e","t","t","e","r","_","_">>,
     <<"h","a","s","O","w","n","P","r","o","p","e","r","t","y">>,
     <<"_","_","l","o","o","k","u","p","G","e","t","t","e","r","_","_">>,
     <<"_","_","l","o","o","k","u","p","S","e","t","t","e","r","_","_">>,
     <<"i","s","P","r","o","t","o","t","y","p","e","O","f">>,
     <<"p","r","o","p","e","r","t","y","I","s","E","n","u","m","e","r","a","b","l","e">>,
     <<"t","o","S","t","r","i","n","g">>, <<"v","a","l","u","e","O","f">>,
     <<"_","_","p","r","o","t","o","_","_">>,
     <<"t","o","L","o","c","a","l","e","S","t","r","i","n","g">>}

\* the own properties of Array.prototype
ArrayPrototypeNames ==
    {<<"l","e","n","g","t","h">>,
     <<"c","o","n","s","t","r","u","c","t","o","r">>,
     <<"c","o","n","c","a","t">>,
     <<"c","o","p","y","W","i","t","h","i","n">>, <<"f","i","l","l">>,
     <<"f","i","n","d">>, <<"f","i","n","d","I","n","d","e","x">>,
     <<"l","a","s","t","I","n","d","e","x","O","f">>, <<"p","o","p">>,
     <<"p","u","s","h">>, <<"r","e","v","e","r","s","e">>,
     <<"s","h","i","f","t">>, <<"u","n","s","h","i","f","t">>,
     <<"s","l","i","c","e">>, <<"s","o","r","t">>,
     <<"s","p","l","i","c","e">>, <<"i","n","c","l","u","d","e","s">>,
     <<"i","n","d","e","x","O","f">>, <<"j","o","i","n">>,
     <<"k","e","y","s">>, <<"e","n","t","r","i","e","s">>,
     <<"v","a","l","u","e","s">>, <<"f","o","r","E","a","c","h">>,
     <<"f","i","l","t","e","r">>, <<"f","l","a","t">>,
     <<"f","l","a","t","M","a","p">>, <<"m","a","p">>,
     <<"e","v","e","r","y">>, <<"s","o","m","e">>,
     <<"r","e","d","u","c","e">>,
     <<"r","e","d","u","c","e","R","i","g","h","t">>,
     <<"t","o","L","o","c","a","l","e","S","t","r","i","n","g">>,
     <<"t","o","S","t","r","i","n","g">>}

\* the names of the own properties of an object; those of an array that
\* are indices are read by number, not by name
OwnNames(v) ==
    CASE v.class = "Object" -> DOMAIN v.own
      [] v.class = "Array" -> {Str_length}
      [] v.class = "Object.prototype" -> ObjectPrototypeNames
      [] v.class = "Array.prototype" -> ArrayPrototypeNames
      [] OTHER -> {}

\* Object.getPrototypeOf(v)
PrototypeOf(v) ==
    CASE v.class = "Object.prototype" -> JSNull
      [] v.class = "Array" -> JSObject("Array.prototype")
      [] OTHER -> JSObject("Object.prototype")

\* name in v
RECURSIVE HasProperty(_, _)
HasProperty(v, name) ==
    \/ name \in OwnNames(v)
    \/ /\ PrototypeOf(v) # JSNull
       /\ HasProperty(PrototypeOf(v), name)

\* the own property of holder read for receiver: a value, or the exception
\* of a getter
OwnProperty(holder, name, receiver) ==
    CASE holder.class = "Object" ->
            IF holder.own[name].t = "accessor" THEN Threw
            ELSE Value(holder.own[name], {})
      [] holder.class = "Array" -> Value(JSNumber(Len(holder.items)), {})
      [] holder.class = "Array.prototype" ->
            IF name = Str_length THEN Value(JSNumber(0), {})
            ELSE IF name = Str_constructor THEN Value(JSFunction("Array"), {})
            ELSE Value(JSFunction("method"), {})
      [] OTHER ->
            IF name = Str_proto THEN Value(PrototypeOf(receiver), {})
            ELSE IF name = Str_constructor THEN Value(JSFunction("Object"), {})
            ELSE Value(JSFunction("method"), {})

\* receiver[name], looked up from holder along the prototype chain
RECURSIVE GetFrom(_, _, _)
GetFrom(holder, name, receiver) ==
    IF name \in OwnNames(holder) THEN OwnProperty(holder, name, receiver)
    ELSE IF PrototypeOf(holder) = JSNull THEN Value(JSUndefined, {})
    ELSE GetFrom(PrototypeOf(holder), name, receiver)

\* v[name]
GetProperty(v, name) == GetFrom(v, name, v)

\* s.split(sep)
RECURSIVE SplitFrom(_, _, _, _)
SplitFrom(s, i, sep, piece) ==
    IF i > Len(s) THEN <<piece>>
    ELSE IF s[i] = sep THEN <<piece>> \o SplitFrom(s, i + 1, sep, <<>>)
    ELSE SplitFrom(s, i + 1, sep, Append(piece, s[i]))
Split(s, sep) == SplitFrom(s, 1, sep, <<>>)

\* /^[a-zA-Z_][a-zA-Z0-9_]*$/
IsFieldName(part) ==
    /\ part # <<>>
    /\ IsIdentStart(part[1])
    /\ \A k \in 1..Len(part) : part[k] \in WordChars

\* /^\d+$/
IsIndex(part) == part # <<>> /\ \A k \in 1..Len(part) : part[k] \in Digits

\* String(n) of a natural number
RECURSIVE DecimalString(_)
DecimalString(n) ==
    LET digit == <<"0","1","2","3","4","5","6","7","8","9">>[(n % 10) + 1]
    IN  IF n < 10 THEN <<digit>> ELSE Append(DecimalString(n \div 10), digit)

---------------------------------------------------------------------------
(* getNestedProperty and safeJSONPath.                                     *)

\* where a traversal ended: the value reached, the number of segments
\* resolved, and why it stopped ("done", "index", "property", "invalid",
\* "threw")
Walked(v, steps, stop) == [v |-> v, steps |-> steps, stop |-> stop]

\* the loop of getNestedProperty over the parts from the k-th on
RECURSIVE NestedFrom(_, _, _)
NestedFrom(current, parts, k) ==
    IF k > Len(parts) THEN Walked(current, k - 1, "done")
    ELSE IF ~IsFieldName(parts[k]) THEN Walked(JSUndefined, k - 1, "invalid")
    ELSE IF Truthy(current) /\ TypeOf(current) = "object"
            /\ HasProperty(current, parts[k])
         THEN LET got == GetProperty(current, parts[k])
              IN  IF got.threw THEN Walked(JSUndefined, k - 1, "threw")
                  ELSE NestedFrom(got.v, parts, k + 1)
    ELSE Walked(JSUndefined, k - 1, "property")

\* getNestedProperty(obj, path): the value returned, or the exception of a
\* getter, which no try block catches
getNestedProperty(obj, path) ==
    IF ~Truthy(obj) \/ ~IsString(path)
    THEN [ret |-> JSUndefined, thrown |-> FALSE, steps |-> 0, parts |-> <<>>]
    ELSE LET parts == Split(path.s, ".")
             walk == NestedFrom(obj, parts, 1)
         IN  [ret |-> IF walk.stop = "threw" THEN NoValue ELSE walk.v,
              thrown |-> walk.stop = "threw",
              steps |-> walk.steps, parts |-> parts]

\* path.replace(/^\$\.?/, '') with the prefix left in place
CleanPath_Keep(path) == path

\* path.replace(/^\$\.?/, '')
CleanPath(path) ==
    IF AtCS(path, 1, <<"$", ".">>) THEN SubSeq(path, 3, Len(path))
    ELSE IF AtCS(path, 1, <<"$">>) THEN SubSeq(path, 2, Len(path))
    ELSE path

\* the loop of safeJSONPath over the parts from the k-th on
RECURSIVE PathFrom(_, _, _)
PathFrom(current, parts, k) ==
    IF k > Len(parts) THEN Walked(current, k - 1, "done")
    ELSE IF IsIndex(parts[k])
         THEN IF current.t = "object" /\ current.class = "Array"
                 /\ DigitsValue(parts[k]) < Len(current.items)
              THEN PathFrom(current.items[DigitsValue(parts[k]) + 1], parts, k + 1)
              ELSE Walked(current, k - 1, "index")
    ELSE IF IsFieldName(parts[k])
         THEN IF Truthy(current) /\ TypeOf(current) = "object"
                 /\ HasProperty(current, parts[k])
              THEN LET got == GetProperty(current, parts[k])
                   IN  IF got.threw THEN Walked(current, k - 1, "threw")
                       ELSE PathFrom(got.v, parts, k + 1)
              ELSE Walked(current, k - 1, "property")
    ELSE Walked(current, k - 1, "invalid")

Msg_Data == "Data must be an object"
Msg_Path == "Path must be a string"
Msg_Index == "Array index ${index} out of bounds"
Msg_Property == "Property '${part}' not found"
Msg_Invalid == "Invalid path component: ${part}"
Msg_PathFailed == "Path evaluation failed"

\* what a call of safeJSONPath leaves: the result object, the parts of the
\* path and how many of them were resolved
Resolved(res, parts, steps) ==
    [ret |-> res, thrown |-> FALSE, steps |-> steps, parts |-> parts]

\* safeJSONPath(data, path)
safeJSONPath(data, path) ==
    IF ~Truthy(data) \/ TypeOf(data) # "object"
    THEN Resolved(Failure(Msg_Data, <<>>), <<>>, 0)
    ELSE IF ~IsString(path)
    THEN Resolved(Failure(Msg_Path, <<>>), <<>>, 0)
    ELSE IF CleanPath(path.s) = <<>>
    THEN Resolved(Result(TRUE, data, JSNull), <<>>, 0)
    ELSE LET parts == Split(CleanPath(path.s), ".")
             walk == PathFrom(data, parts, 1)
             part == parts[walk.steps + 1]
         IN  CASE walk.stop = "done" ->
                    Resolved(Result(TRUE, walk.v, JSNull), parts, walk.steps)
               [] walk.stop = "index" ->
                    Resolved(Failure(Msg_Index,
                                     DecimalString(DigitsValue(part))),
                             parts, walk.steps)
               [] walk.stop = "property" ->
                    Resolved(Failure(Msg_Property, part), parts, walk.steps)
               [] walk.stop = "invalid" ->
                    Resolved(Failure(Msg_Invalid, part), parts, walk.steps)
               [] walk.stop = "threw" ->
                    Resolved(Failure(Msg_PathFailed, <<>>), parts, walk.steps)

\* the longest path, in segments
MaxPathSegments == 2

\* the segments the paths are built from: field names, indices (one with
\* a leading zero, one past the end), the names every object inherits, an
\* empty segment and one that is no name
PathSegments ==
    { <<"a">>, <<"b">>, <<"0">>, <<"1">>, <<"0","1">>, <<"2">>, Str_proto,
      Str_constructor,
      Str_prototype, Str_length, <<>>, <<"a","-","b">> }

\* parts.join('.')
RECURSIVE Join(_, _)
Join(parts, sep) ==
    IF parts = <<>> THEN <<>>
    ELSE IF Len(parts) = 1 THEN parts[1]
    ELSE parts[1] \o <<sep>> \o Join(Tail(parts), sep)

PathPrefixes == { <<>>, <<"$">>, <<"$", ".">> }

PathStrings ==
    { pre \o Join(segs, ".") :
        pre \in PathPrefixes,
        segs \in UNION {[1..n -> PathSegments] : n \in 0..MaxPathSegments} }

\* the data: objects and arrays as JSON.parse builds them (own keys named
\* __proto__ and constructor included), an object with a getter that
\* throws, and values that are no objects
PathRoots ==
    { PlainObject(<<>>),
      PlainObject((<<"a">> :> PlainObject(<<"b">> :> JSNumber(1)))
                  @@ (<<"b">> :> JSArray(<<JSNumber(1),
                                           PlainObject(<<"a">> :> JSNumber(2))>>))),
      JSArray(<<PlainObject(<<"a">> :> JSNull), JSArray(<<JSNumber(2)>>)>>),
      PlainObject((Str_proto :> PlainObject(<<"a">> :> JSNumber(1)))
                  @@ (Str_constructor :> JSNumber(5))
                  @@ (<<"a">> :> JSString(<<"s">>))),
      PlainObject((<<"a">> :> ThrowingGetter) @@ (<<"b">> :> JSUndefined)),
      JSNull, JSUndefined, JSNumber(1), JSString(<<"a", "b">>),
      JSFunction("returns 1") }

InitPath ==
    /\ call \in [fn : {"safeJSONPath", "getNestedProperty"},
                 data : PathRoots,
                 path : {JSString(s) : s \in PathStrings} \cup NonStrings]
    /\ ret = NoValue
    /\ cpc = "call"
    /\ XssIdle
    /\ EvalIdle

\* a call of safeJSONPath(data, path)
SafeJSONPath ==
    /\ cpc = "call"
    /\ call.fn = "safeJSONPath"
    /\ ret' = safeJSONPath(call.data, call.path)
    /\ cpc' = "returned"
    /\ UNCHANGED <<call, xssVars, evalVars>>

\* a call of getNestedProperty(obj, path)
GetNestedProperty ==
    /\ cpc = "call"
    /\ call.fn = "getNestedProperty"
    /\ ret' = getNestedProperty(call.data, call.path)
    /\ cpc' = "returned"
    /\ UNCHANGED <<call, xssVars, evalVars>>

NextPath == SafeJSONPath \/ GetNestedProperty
SpecPath == InitPath /\ [][NextPath]_vars

---------------------------------------------------------------------------
(* Properties of the path resolvers.                                       *)

DeniedSegments == {Str_proto, Str_constructor, Str_prototype}

\* the path of the call is a string with a denied segment
HasDeniedSegment ==
    /\ IsString(call.path)
    /\ \E k \in 1..Len(Split(call.path.s, ".")) :
          Split(call.path.s, ".")[k] \in DeniedSegments

PathReturned == cpc = "returned" /\ call.fn \in {"safeJSONPath", "getNestedProperty"}

\* C11: a path with a segment __proto__, constructor or prototype is
\* reported not found (safeJSONPath: success = false and value = null;
\* getNestedProperty: undefined), and no such segment is stepped through.
C11_DeniedSegmentNotFound ==
    (PathReturned /\ HasDeniedSegment) =>
        /\ ~ret.thrown
        /\ IF call.fn = "safeJSONPath"
           THEN ret.ret.success = FALSE /\ ret.ret.value = JSNull
           ELSE ret.ret = JSUndefined
        /\ \A k \in 1..ret.steps : ret.parts[k] \notin DeniedSegments

\* the fields of the data itself: looking the parts up one after another
\* from the k-th on, in the own fields of objects and the elements of
\* arrays; <<v>> when every part names one, <<>> at the first mismatch
RECURSIVE LookUp(_, _, _)
LookUp(current, parts, k) ==
    IF k > Len(parts) THEN <<current>>
    ELSE IF current.t # "object" THEN <<>>
    ELSE IF IsIndex(parts[k])
         THEN IF current.class = "Array"
                 /\ DigitsValue(parts[k]) < Len(current.items)
              THEN LookUp(current.items[DigitsValue(parts[k]) + 1], parts, k + 1)
              ELSE <<>>
    ELSE IF IsFieldName(parts[k])
         THEN IF current.class = "Object" /\ parts[k] \in DOMAIN current.own
              THEN IF current.own[parts[k]].t = "accessor" THEN <<>>
                   ELSE LookUp(current.own[parts[k]], parts, k + 1)
              ELSE <<>>
    ELSE <<>>

\* the path of the call without its leading '$' or '$.', in parts
PathParts ==
    LET p == call.path.s
    IN  IF AtCS(p, 1, <<"$", ".">>) THEN Split(SubSeq(p, 3, Len(p)), ".")
        ELSE IF AtCS(p, 1, <<"$">>) THEN Split(SubSeq(p, 2, Len(p)), ".")
        ELSE Split(p, ".")

\* a call of safeJSONPath on an object and a path that is not empty
PathWalked ==
    /\ cpc = "returned"
    /\ call.fn = "safeJSONPath"
    /\ call.data.t = "object"
    /\ IsString(call.path)
    /\ PathParts # << <<>> >>

\* C12: safeJSONPath raises nothing and returns no partial result: a
\* mismatch at a segment (missing field, wrong kind of container, index
\* out of bounds, invalid segment) gives success = false, value = null and
\* an error; success = true only when every segment was resolved, and then
\* the error is null.
C12_NoPartialResult ==
    (cpc = "returned" /\ call.fn = "safeJSONPath") =>
        /\ ~ret.thrown
        /\ ret.ret.success =>
              /\ ret.ret.error = JSNull
              /\ ret.steps = Len(ret.parts)
        /\ ~ret.ret.success =>
              /\ ret.ret.value = JSNull
              /\ ret.ret.error # JSNull
        /\ (PathWalked /\ LookUp(call.data, PathParts, 1) = <<>>) =>
              ~ret.ret.success

\* the names of a dotted path, with or without the prefix '$.'
PathNames ==
    LET p == call.path.s
    IN  IF AtCS(p, 1, <<"$", ".">>) THEN Split(SubSeq(p, 3, Len(p)), ".")
        ELSE Split(p, ".")

\* a call of safeJSONPath on an object with a path of field names, each
\* present on the value reached so far
FieldsPresent ==
    /\ cpc = "returned"
    /\ call.fn = "safeJSONPath"
    /\ call.data.t = "object"
    /\ IsString(call.path)
    /\ \A k \in 1..Len(PathNames) : IsFieldName(PathNames[k])
    /\ LookUp(call.data, PathNames, 1) # <<>>

\* C13: on a dotted path of field names, each present on the value
\* reached so far, safeJSONPath returns success = true with the value
\* found by looking the fields up one after another, with or without the
\* prefix '$.'.
C13_ResolvesPresentFields ==
    FieldsPresent =>
        /\ ~ret.thrown
        /\ ret.ret = Result(TRUE, LookUp(call.data, PathNames, 1)[1], JSNull)

\* a path of two names behind the prefix, resolved to a number
C13_Witness ==
    /\ FieldsPresent
    /\ AtCS(call.path.s, 1, <<"$", ".">>)
    /\ Len(PathNames) = 2
    /\ ret.ret.success
    /\ ret.ret.value = JSNumber(1)

\* a decimal numeral in canonical form: digits only, no leading zero
IsCanonicalIndex(part) ==
    IsIndex(part) /\ (Len(part) = 1 \/ part[1] # "0")

\* the call was safeJSONPath and its path starts with a segment of digits
FirstIsIndex ==
    /\ cpc = "returned"
    /\ call.fn = "safeJSONPath"
    /\ ret.parts # <<>>
    /\ IsIndex(ret.parts[1])

\* the first segment is a canonical index into the sequence the data is
IndexApplies ==
    /\ IsCanonicalIndex(ret.parts[1])
    /\ call.data.t = "object" /\ call.data.class = "Array"
    /\ DigitsValue(ret.parts[1]) < Len(call.data.items)

\* C27: safeJSONPath resolves an index segment exactly when the segment is
\* a canonical decimal numeral without leading zeros, the current value is
\* a sequence and the index is below its length; otherwise (a numeral such
\* as '01', a value that is no sequence, an index at or past the end) the
\* path is reported not found.
C27_IndexResolvedIffCanonical ==
    FirstIsIndex =>
        /\ ret.steps >= 1 <=> IndexApplies
        /\ ~IndexApplies => ~ret.ret.success

---------------------------------------------------------------------------
(* removePrototypePollution, in the evaluator's module and in the XSS      *)
(* module.                                                                 *)

Str_hasOwnProperty == <<"h","a","s","O","w","n","P","r","o","p","e","r","t","y">>

\* a call that returned v, and a call that threw
Gave(v) == [thrown |-> FALSE, ret |-> v]
Raised == [thrown |-> TRUE, ret |-> NoValue]

\* key !== '__proto__' && key !== 'constructor' && key !== 'prototype'
KeptKeys(obj) == DOMAIN obj.own \ {Str_proto, Str_constructor, Str_prototype}

\* the array or object built from the cleaned children, unless one threw
Rebuilt(obj, kids) ==
    IF \E k \in DOMAIN kids : kids[k].thrown THEN Raised
    ELSE IF obj.class = "Array"
         THEN Gave(JSArray([k \in DOMAIN kids |-> kids[k].ret]))
         ELSE Gave(PlainObject([k \in DOMAIN kids |-> kids[k].ret]))

\* removePrototypePollution(obj) of examples/03-eval-alternatives: the own
\* keys are tested with Object.prototype.hasOwnProperty.call(obj, key)
RECURSIVE removePrototypePollution(_)
removePrototypePollution(obj) ==
    IF obj.t # "object" THEN Gave(obj)
    ELSE IF obj.class = "Array"
         THEN Rebuilt(obj, [k \in 1..Len(obj.items) |->
                               removePrototypePollution(obj.items[k])])
         ELSE Rebuilt(obj, [key \in KeptKeys(obj) |->
                               removePrototypePollution(obj.own[key])])

\* obj.hasOwnProperty(key) on an own key: a TypeError when the property
\* hasOwnProperty of obj is no function
HasOwnPropertyThrows(obj) ==
    GetProperty(obj, Str_hasOwnProperty).v.t # "function"

\* removePrototypePollution(obj) of examples/02-xss-prevention: the own
\* keys are tested with obj.hasOwnProperty(key)
RECURSIVE removePrototypePollutionXSS(_)
removePrototypePollutionXSS(obj) ==
    IF obj.t # "object" THEN Gave(obj)
    ELSE IF obj.class = "Array"
         THEN Rebuilt(obj, [k \in 1..Len(obj.items) |->
                               removePrototypePollutionXSS(obj.items[k])])
         ELSE IF KeptKeys(obj) # {} /\ HasOwnPropertyThrows(obj) THEN Raised
         ELSE Rebuilt(obj, [key \in KeptKeys(obj) |->
                               removePrototypePollutionXSS(obj.own[key])])

\* how many times a value is wrapped in an array or an object
MaxWraps == 2

\* the values JSON.parse gives that have nothing in them or scalars only
ParsedLeaves ==
    { JSNull, JSNumber(1), JSString(<<"s">>), JSBoolean(TRUE),
      PlainObject(<<>>), JSArray(<<>>),
      PlainObject(Str_hasOwnProperty :> JSNumber(1)) }

\* a value with v in it: in an array, under a plain key, under each of the
\* three keys, beside other keys
Wrappings(v) ==
    { JSArray(<<v>>),
      JSArray(<<JSNumber(1), v>>),
      PlainObject(<<"a">> :> v),
      PlainObject(Str_proto :> v),
      PlainObject((Str_constructor :> v) @@ (<<"a">> :> JSNumber(1))),
      PlainObject((Str_prototype :> JSBoolean(TRUE)) @@ (<<"b">> :> v)) }

RECURSIVE ParsedValues(_)
ParsedValues(wraps) ==
    IF wraps = 0 THEN ParsedLeaves
    ELSE ParsedValues(wraps - 1)
         \cup UNION {Wrappings(v) : v \in ParsedValues(wraps - 1)}

InitClean ==
    /\ call \in [fn : {"removePrototypePollution", "removePrototypePollutionXSS"},
                 data : ParsedValues(MaxWraps)]
    /\ ret = NoValue
    /\ cpc = "call"
    /\ XssIdle
    /\ EvalIdle

\* a call of removePrototypePollution(obj), examples/03-eval-alternatives
RemovePrototypePollution ==
    /\ cpc = "call"
    /\ call.fn = "removePrototypePollution"
    /\ ret' = removePrototypePollution(call.data)
    /\ cpc' = "returned"
    /\ UNCHANGED <<call, xssVars, evalVars>>

\* a call of removePrototypePollution(obj), examples/02-xss-prevention
RemovePrototypePollutionXSS ==
    /\ cpc = "call"
    /\ call.fn = "removePrototypePollutionXSS"
    /\ ret' = removePrototypePollutionXSS(call.data)
    /\ cpc' = "returned"
    /\ UNCHANGED <<call, xssVars, evalVars>>

NextClean == RemovePrototypePollution \/ RemovePrototypePollutionXSS
SpecClean == InitClean /\ [][NextClean]_vars

\* out is what is left of in: scalars equal, arrays of the same length
\* element by element, objects with the keys of in but the three
RECURSIVE Preserved(_, _)
Preserved(in, out) ==
    IF in.t # "object" THEN out = in
    ELSE IF out.t # "object" THEN FALSE
    ELSE IF in.class = "Array"
         THEN /\ out.class = "Array"
              /\ Len(out.items) = Len(in.items)
              /\ \A k \in 1..Len(in.items) : Preserved(in.items[k], out.items[k])
         ELSE /\ out.class = "Object"
              /\ DOMAIN out.own = DOMAIN in.own \ DeniedSegments
              /\ \A key \in DOMAIN out.own : Preserved(in.own[key], out.own[key])

\* C14: removePrototypePollution returns, for every parsed value, a value
\* in which no object at any depth has a key __proto__, constructor or
\* prototype, with every other key, every scalar and every array kept.
C14_PollutionRemoved ==
    (cpc = "returned"
     /\ call.fn \in {"removePrototypePollution", "removePrototypePollutionXSS"}) =>
        /\ ~ret.thrown
        /\ Preserved(call.data, ret.ret)


---------------------------------------------------------------------------
(* new URL(input) without a base: the URL parser of the host, as the URL   *)
(* Standard defines it, for inputs over letters, digits, ".", ":", "/",    *)
(* "-", "+", space and tab.  Credentials, queries, fragments, backslashes, *)
(* percent escapes, IPv6 literals and dot segments are not in the inputs.  *)

Max(S) == CHOOSE m \in S : \A k \in S : m >= k
Letters == Range(LowerLetters) \cup Range(UpperLetters)

\* s with its leading and trailing characters of the class removed
StripOf(s, class) ==
    LET keep == {k \in 1..Len(s) : s[k] \notin class}
    IN  IF keep = {} THEN <<>> ELSE SubSeq(s, Min(keep), Max(keep))

\* String.prototype.trim
Trim(s) == StripOf(s, SpaceChars)

\* the parser strips leading and trailing C0 controls and spaces, then
\* removes every ASCII tab or newline
C0ControlOrSpace == {" ", "\t", "\n", "\r", "\f"}
TabOrNewline == {"\t", "\n", "\r"}
Without(s, class) == SelectSeq(s, LAMBDA c : c \notin class)

\* scheme state: a letter, then letters, digits, "+", "-", "." up to a
\* ":"; the index of that ":" (0: no scheme, a failure without a base)
SchemeChars == Letters \cup Digits \cup {"+", "-", "."}
SchemeEnd(s) ==
    IF s = <<>> \/ s[1] \notin Letters THEN 0
    ELSE LET e == RunEnd(s, 1, SchemeChars)
         IN  IF e <= Len(s) /\ s[e] = ":" THEN e ELSE 0

Str_http == <<"h","t","t","p">>
Str_https == <<"h","t","t","p","s">>
Str_ftp == <<"f","t","p">>
Str_file == <<"f","i","l","e">>
Str_ws == <<"w","s">>
Str_wss == <<"w","s","s">>
Str_mailto == <<"m","a","i","l","t","o">>
Str_localhost == <<"l","o","c","a","l","h","o","s","t">>

\* the special schemes and their default ports (file has none)
DefaultPort ==
    [s \in {Str_http, Str_https, Str_ftp, Str_ws, Str_wss} |->
        CASE s = Str_http -> 80 [] s = Str_https -> 443 [] s = Str_ftp -> 21
          [] s = Str_ws -> 80 [] s = Str_wss -> 443]
IsSpecial(scheme) == scheme \in DOMAIN DefaultPort \cup {Str_file}

\* IPv4 number parser.  A number is four base-256 digits, most significant
\* first, and over is TRUE when the number does not fit 32 bits.
HexValue ==
    [c \in Digits \cup {"a","b","c","d","e","f","A","B","C","D","E","F"} |->
        CASE c \in Digits -> DigitValue(c)
          [] c \in {"a", "A"} -> 10 [] c \in {"b", "B"} -> 11
          [] c \in {"c", "C"} -> 12 [] c \in {"d", "D"} -> 13
          [] c \in {"e", "E"} -> 14 [] c \in {"f", "F"} -> 15]

MulAdd(num, radix, d) ==
    LET t4 == num.b[4] * radix + d
        t3 == num.b[3] * radix + (t4 \div 256)
        t2 == num.b[2] * radix + (t3 \div 256)
        t1 == num.b[1] * radix + (t2 \div 256)
    IN  [ok |-> TRUE,
         b |-> <<t1 % 256, t2 % 256, t3 % 256, t4 % 256>>,
         over |-> num.over \/ t1 >= 256]

RECURSIVE Accumulate(_, _, _, _)
Accumulate(digits, i, radix, num) ==
    IF i > Len(digits) THEN num
    ELSE Accumulate(digits, i + 1, radix,
                    MulAdd(num, radix, HexValue[digits[i]]))

NoNumber == [ok |-> FALSE, b |-> <<0, 0, 0, 0>>, over |-> FALSE]

ParseIPv4Number(part) ==
    LET hex == Len(part) >= 2 /\ part[1] = "0" /\ part[2] \in {"x", "X"}
        oct == ~hex /\ Len(part) >= 2 /\ part[1] = "0"
        radix == IF hex THEN 16 ELSE IF oct THEN 8 ELSE 10
        digits == IF hex THEN SubSeq(part, 3, Len(part))
                  ELSE IF oct THEN Tail(part) ELSE part
    IN  IF part = <<>> THEN NoNumber
        ELSE IF \E k \in 1..Len(digits) :
                    \/ digits[k] \notin DOMAIN HexValue
                    \/ HexValue[digits[k]] >= radix
             THEN NoNumber
        ELSE Accumulate(digits, 1, radix,
                        [ok |-> TRUE, b |-> <<0, 0, 0, 0>>, over |-> FALSE])

\* the labels of a host, a single trailing empty label dropped
Labels(host) ==
    LET parts == Split(host, ".")
    IN  IF Len(parts) > 1 /\ parts[Len(parts)] = <<>>
        THEN SubSeq(parts, 1, Len(parts) - 1) ELSE parts

\* ends-in-a-number checker
IsNumberLabel(last) ==
    /\ last # <<>>
    /\ \/ \A k \in 1..Len(last) : last[k] \in Digits
       \/ ParseIPv4Number(last).ok
LastOf(labels) == labels[Len(labels)]
EndsInNumber(host) == IsNumberLabel(LastOf(Labels(host)))

NoHost == [ok |-> FALSE, host |-> <<>>]
Host(h) == [ok |-> TRUE, host |-> h]

\* IPv4 parser and serializer: at most four parts, every part but the last
\* at most 255, the last one filling the remaining bytes
AddressOf(nums) ==
    LET n == Len(nums)
        small(num) == ~num.over /\ num.b[1] = 0 /\ num.b[2] = 0 /\ num.b[3] = 0
        address == [k \in 1..4 |-> IF k < n THEN nums[k].b[4] ELSE nums[n].b[k]]
    IN  IF n > 4 THEN NoHost
        ELSE IF \E k \in 1..n : ~nums[k].ok THEN NoHost
        ELSE IF \E k \in 1..(n - 1) : ~small(nums[k]) THEN NoHost
        ELSE IF nums[n].over \/ \E k \in 1..(n - 1) : nums[n].b[k] # 0
             THEN NoHost
        ELSE Host(Join([k \in 1..4 |-> DecimalString(address[k])], "."))
NumbersOf(parts) == [k \in 1..Len(parts) |-> ParseIPv4Number(parts[k])]
ParseIPv4(host) == AddressOf(NumbersOf(Labels(host)))

\* host parser: a domain is lower-cased, must be non-empty and free of
\* forbidden code points, and is an IPv4 address when it ends in a number;
\* the host of a non-special URL is opaque and kept as written
ForbiddenHostCodePoints ==
    {" ", "\t", "\n", "\r", "#", "/", ":", "<", ">", "?", "@", "[", "\\",
     "]", "^", "|"}
ForbiddenDomainCodePoints == ForbiddenHostCodePoints \cup {"%", "\f"}

ParseHost(input, isOpaque) ==
    IF isOpaque
    THEN IF \E k \in 1..Len(input) : input[k] \in ForbiddenHostCodePoints
         THEN NoHost ELSE Host(input)
    ELSE LET domain == LowerStr(input)
         IN  IF domain = <<>> THEN NoHost
             ELSE IF \E k \in 1..Len(domain) :
                         domain[k] \in ForbiddenDomainCodePoints
                  THEN NoHost
             ELSE IF EndsInNumber(domain) THEN ParseIPv4(domain)
             ELSE Host(domain)


\* port state: digits only, at most 65535, the scheme's default port
\* dropped; the empty string stands for no port
RECURSIVE PortValue(_, _, _)
PortValue(ds, i, acc) ==
    IF i > Len(ds) THEN acc
    ELSE PortValue(ds, i + 1,
                   IF acc > 65535 THEN acc ELSE 10 * acc + DigitValue(ds[i]))

NoPort == [ok |-> FALSE, port |-> <<>>]
ParsePort(buffer, scheme) ==
    IF \E k \in 1..Len(buffer) : buffer[k] \notin Digits THEN NoPort
    ELSE IF buffer = <<>> THEN [ok |-> TRUE, port |-> <<>>]
    ELSE IF PortValue(buffer, 1, 0) > 65535 THEN NoPort
    ELSE IF scheme \in DOMAIN DefaultPort
            /\ DefaultPort[scheme] = PortValue(buffer, 1, 0)
         THEN [ok |-> TRUE, port |-> <<>>]
    ELSE [ok |-> TRUE, port |-> DecimalString(PortValue(buffer, 1, 0))]

\* path state: a space is percent-encoded
EncodePath(p) ==
    Flatten([k \in 1..Len(p) |->
                IF p[k] = " " THEN <<"%", "2", "0">> ELSE <<p[k]>>])

\* what the parser gives: failure (the constructor throws TypeError), or
\* the URL with its protocol, hostname and href getters
NoURL == [ok |-> FALSE, protocol |-> <<>>, hostname |-> <<>>, href |-> <<>>]
URLOf(scheme, hasHost, host, port, path) ==
    [ok |-> TRUE,
     protocol |-> scheme \o <<":">>,
     hostname |-> host,
     href |-> scheme \o <<":">>
              \o (IF hasHost THEN <<"/", "/">> \o host ELSE <<>>)
              \o (IF port # <<>> THEN <<":">> \o port ELSE <<>>)
              \o path]

\* authority, host and port states: the authority runs to the next "/";
\* an empty host is a failure before a port and in a special URL
Located(scheme, host, port, path) ==
    IF ~host.ok \/ ~port.ok THEN NoURL
    ELSE URLOf(scheme, TRUE, host.host, port.port,
               IF IsSpecial(scheme) /\ path = <<>> THEN <<"/">>
               ELSE EncodePath(path))

HostAndPort(scheme, name, hasPort, buffer, path) ==
    IF name = <<>> /\ (IsSpecial(scheme) \/ hasPort) THEN NoURL
    ELSE Located(scheme,
                 ParseHost(name, ~IsSpecial(scheme)),
                 IF hasPort THEN ParsePort(buffer, scheme)
                 ELSE [ok |-> TRUE, port |-> <<>>],
                 path)

SplitAuthority(scheme, authority, path) ==
    HostAndPort(scheme,
                IF FirstChar(authority, 1, ":") = 0 THEN authority
                ELSE SubSeq(authority, 1, FirstChar(authority, 1, ":") - 1),
                FirstChar(authority, 1, ":") # 0,
                SubSeq(authority, FirstChar(authority, 1, ":") + 1,
                       Len(authority)),
                path)

AuthorityEnd(rest, scheme) ==
    RunEndNot(rest, 1, {"/", "?", "#"}
                       \cup (IF IsSpecial(scheme) THEN {"\\"} ELSE {}))

ParseAuthority(rest, scheme) ==
    SplitAuthority(scheme,
                   SubSeq(rest, 1, AuthorityEnd(rest, scheme) - 1),
                   SubSeq(rest, AuthorityEnd(rest, scheme), Len(rest)))

\* file, file slash and file host states: the host localhost is dropped
FileLocated(host, path) ==
    IF ~host.ok THEN NoURL
    ELSE URLOf(Str_file, TRUE,
               IF host.host = Str_localhost THEN <<>> ELSE host.host,
               <<>>,
               IF path = <<>> THEN <<"/">> ELSE EncodePath(path))

FileHost(name, path) ==
    FileLocated(IF name = <<>> THEN Host(<<>>) ELSE ParseHost(name, FALSE),
                path)

FileAuthority(after) ==
    FileHost(SubSeq(after, 1, RunEndNot(after, 1, {"/", "\\", "?", "#"}) - 1),
             SubSeq(after, RunEndNot(after, 1, {"/", "\\", "?", "#"}),
                    Len(after)))

ParseFile(rest) ==
    IF AtCS(rest, 1, <<"/", "/">>)
    THEN FileAuthority(SubSeq(rest, 3, Len(rest)))
    ELSE URLOf(Str_file, TRUE, <<>>, <<>>,
               IF AtCS(rest, 1, <<"/">>) THEN EncodePath(rest)
               ELSE <<"/">> \o EncodePath(rest))

\* new URL(input): a special scheme skips every slash before its
\* authority; another scheme has an authority after "//", a path after
\* "/", and an opaque path otherwise
AfterScheme(scheme, rest) ==
    IF scheme = Str_file THEN ParseFile(rest)
    ELSE IF IsSpecial(scheme) \/ AtCS(rest, 1, <<"/", "/">>)
         THEN ParseAuthority(
                  IF IsSpecial(scheme)
                  THEN SubSeq(rest, RunEnd(rest, 1, {"/", "\\"}), Len(rest))
                  ELSE SubSeq(rest, 3, Len(rest)),
                  scheme)
    ELSE URLOf(scheme, FALSE, <<>>, <<>>,
               IF AtCS(rest, 1, <<"/">>) THEN EncodePath(rest) ELSE rest)

ParseCleaned(s) ==
    IF SchemeEnd(s) = 0 THEN NoURL
    ELSE AfterScheme(LowerStr(SubSeq(s, 1, SchemeEnd(s) - 1)),
                     SubSeq(s, SchemeEnd(s) + 1, Len(s)))

ParseURL(input) ==
    ParseCleaned(Without(StripOf(input, C0ControlOrSpace), TabOrNewline))

---------------------------------------------------------------------------
(* validateURL (examples/02-xss-prevention).                               *)

\* a result object: { isValid, sanitizedURL, errors }
URLResult(isValid, sanitizedURL, errors) ==
    [isValid |-> isValid, sanitizedURL |-> sanitizedURL, errors |-> errors]
\* an error message, with the text interpolated into it
ErrorText(msg, arg) == [msg |-> msg, arg |-> arg]

\* the default of the second parameter
DefaultAllowedProtocols ==
    {Str_http \o <<":">>, Str_https \o <<":">>, Str_mailto \o <<":">>}

\* /javascript:/i, /vbscript:/i, /data:/i, /file:/i, /ftp:/i
dangerousPatterns ==
    {d \o <<":">> : d \in {Str_javascript, Str_vbscript, Str_data,
                           Str_file, Str_ftp}}

\* allowedProtocols.includes(parsedURL.protocol), every protocol allowed
ProtocolAllowed_Any(protocol, allowed) == TRUE

\* allowedProtocols.includes(parsedURL.protocol)
ProtocolAllowed(protocol, allowed) == protocol \in allowed

\* the hostname test of lines 846-849
IsPrivateHostname(hostname) ==
    \/ hostname = Str_localhost
    \/ AtCS(hostname, 1, <<"1","2","7",".">>)
    \/ AtCS(hostname, 1, <<"1","9","2",".","1","6","8",".">>)
    \/ AtCS(hostname, 1, <<"1","0",".">>)

\* lines 840-859, new URL(url) having returned or thrown
ValidateParsed(parsedURL, allowedProtocols) ==
    IF ~parsedURL.ok
    THEN URLResult(FALSE, <<>>, <<ErrorText("Invalid URL format", <<>>)>>)
    ELSE IF ~ProtocolAllowed(parsedURL.protocol, allowedProtocols)
    THEN URLResult(FALSE, <<>>,
             <<ErrorText("Protocol not allowed", parsedURL.protocol)>>)
    ELSE IF IsPrivateHostname(parsedURL.hostname)
    THEN URLResult(FALSE, <<>>,
             <<ErrorText("Private/local URLs not allowed", <<>>)>>)
    ELSE URLResult(TRUE, parsedURL.href, <<>>)

\* lines 822-859, on the trimmed string
ValidateTrimmed(trimmed, allowedProtocols) ==
    IF \E pattern \in dangerousPatterns : IncludesCI(trimmed, pattern)
    THEN URLResult(FALSE, <<>>,
             <<ErrorText("Dangerous URL protocol detected", <<>>)>>)
    ELSE ValidateParsed(ParseURL(trimmed), allowedProtocols)

validateURL(url, allowedProtocols) ==
    IF ~IsString(url)
    THEN URLResult(FALSE, <<>>, <<ErrorText("URL must be a string", <<>>)>>)
    ELSE ValidateTrimmed(Trim(url.s), allowedProtocols)

---------------------------------------------------------------------------
(* validateInput (01-input-validation).                                    *)

\* a result object: { isValid, value, errors }
InputResult(isValid, value, errors) ==
    [isValid |-> isValid, value |-> value, errors |-> errors]

\* a rules object: type is "none" when the property is absent, maxLength
\* is a number or undefined, allowedChars is NoPattern or a regular
\* expression ^[class]+$ given by its class
NoPattern == [class |-> {}, absent |-> TRUE]
Pattern(class) == [class |-> class, absent |-> FALSE]
Rules(type, maxLength, allowedChars, required) ==
    [type |-> type, maxLength |-> maxLength, allowedChars |-> allowedChars,
     required |-> required]

\* input === null || input === undefined || input === ''
IsEmptyInput(input) ==
    input.t \in {"null", "undefined"} \/ input = JSString(<<>>)

\* Number(s) of a string: white space trimmed, the empty string 0, an
\* optionally signed decimal literal its value, Infinity, NaN otherwise
StringToNumber(s) ==
    LET trimmed == Trim(s)
        signed == trimmed # <<>> /\ trimmed[1] \in {"+", "-"}
        neg == signed /\ trimmed[1] = "-"
        body == IF signed THEN Tail(trimmed) ELSE trimmed
        intEnd == RunEnd(body, 1, Digits)
        int == SubSeq(body, 1, intEnd - 1)
        hasDot == intEnd <= Len(body) /\ body[intEnd] = "."
        frac == IF hasDot THEN SubSeq(body, intEnd + 1, Len(body)) ELSE <<>>
    IN  IF trimmed = <<>> THEN Finite(FALSE, 0, 1)
        ELSE IF body = <<"I","n","f","i","n","i","t","y">> THEN Infinite(neg)
        ELSE IF int \o frac = <<>> THEN NaNValue
        ELSE IF ~hasDot /\ intEnd <= Len(body) THEN NaNValue
        ELSE IF \E k \in 1..Len(frac) : frac[k] \notin Digits THEN NaNValue
        ELSE Reduced(neg, DigitsValue(int \o frac), Pow10(Len(frac)))

\* Number(input): an empty array converts through the empty string, a
\* plain object or a function through a string that is no number
NumberOf(input) ==
    CASE input.t = "number" -> input
      [] input.t = "string" -> StringToNumber(input.s)
      [] input.t = "null" -> Finite(FALSE, 0, 1)
      [] input.t = "boolean" -> Finite(FALSE, IF input.b THEN 1 ELSE 0, 1)
      [] input.t = "object" /\ input.class = "Array" /\ input.items = <<>> ->
            Finite(FALSE, 0, 1)
      [] OTHER -> NaNValue

\* /^[a-zA-Z0-9._%+-]+@[a-zA-Z0-9.-]+\.[a-zA-Z]{2,}$/.test(s)
emailRegex(s) ==
    \E at \in 2..Len(s) : \E dot \in (at + 2)..(Len(s) - 2) :
        /\ s[at] = "@"
        /\ s[dot] = "."
        /\ \A k \in 1..(at - 1) :
              s[k] \in Letters \cup Digits \cup {".", "_", "%", "+", "-"}
        /\ \A k \in (at + 1)..(dot - 1) :
              s[k] \in Letters \cup Digits \cup {".", "-"}
        /\ \A k \in (dot + 1)..Len(s) : s[k] \in Letters

\* rules.allowedChars.test(s)
TestPattern(pattern, s) ==
    s # <<>> /\ \A k \in 1..Len(s) : s[k] \in pattern.class

\* the outcome of a case of the switch: its error (none when the case
\* passes) and the input as the case leaves it
Pass(v) == [errors |-> <<>>, input |-> v]
Fail(msg, input) == [errors |-> <<ErrorText(msg, <<>>)>>, input |-> input]

\* case 'number'
NumberCase(num, input) ==
    IF num.k # "finite" THEN Fail("Expected valid number", input)
    ELSE Pass(num)

\* case 'url', new URL(input) having returned or thrown
UrlCase(url, input) ==
    IF ~url.ok THEN Fail("Invalid URL format", input)
    ELSE IF ~ProtocolAllowed(url.protocol,
                 {Str_http \o <<":">>, Str_https \o <<":">>})
         THEN Fail("URL must use HTTP or HTTPS protocol", input)
    ELSE Pass(JSString(url.href))

\* the switch on rules.type
TypeCase(input, rules) ==
    CASE rules.type = "string" ->
           IF ~IsString(input) THEN Fail("Expected string type", input)
           ELSE Pass(input)
      [] rules.type = "number" -> NumberCase(NumberOf(input), input)
      [] rules.type = "email" ->
           IF ~IsString(input) THEN Fail("Email must be a string", input)
           ELSE IF ~emailRegex(input.s)
                THEN Fail("Invalid email format", input)
           ELSE Pass(input)
      [] rules.type = "url" ->
           IF ~IsString(input) THEN Fail("URL must be a string", input)
           ELSE UrlCase(ParseURL(input.s), input)
      [] OTHER -> Pass(input)

\* lines 90-105 without the return of line 93: the character test runs
\* after a failed length test and pushes a second message
AfterSwitch_Collect(typed, rules) ==
    LET tooLong == Truthy(rules.maxLength) /\ IsString(typed.input)
                   /\ Len(typed.input.s) > rules.maxLength.n
        badChars == ~rules.allowedChars.absent /\ IsString(typed.input)
                    /\ ~TestPattern(rules.allowedChars, typed.input.s)
        errors ==
            (IF tooLong
             THEN <<ErrorText("Input exceeds maximum length of",
                              DecimalString(rules.maxLength.n))>>
             ELSE <<>>)
            \o (IF badChars
                THEN <<ErrorText("Input contains disallowed characters",
                                 <<>>)>>
                ELSE <<>>)
    IN  IF typed.errors # <<>>
        THEN InputResult(FALSE, JSNull, typed.errors)
        ELSE IF errors # <<>> THEN InputResult(FALSE, JSNull, errors)
        ELSE InputResult(TRUE, typed.input, <<>>)

\* lines 90-105, after the switch
AfterSwitch(typed, rules) ==
    IF typed.errors # <<>>
    THEN InputResult(FALSE, JSNull, typed.errors)
    ELSE IF Truthy(rules.maxLength) /\ IsString(typed.input)
            /\ Len(typed.input.s) > rules.maxLength.n
    THEN InputResult(FALSE, JSNull,
             <<ErrorText("Input exceeds maximum length of",
                         DecimalString(rules.maxLength.n))>>)
    ELSE IF ~rules.allowedChars.absent /\ IsString(typed.input)
            /\ ~TestPattern(rules.allowedChars, typed.input.s)
    THEN InputResult(FALSE, JSNull,
             <<ErrorText("Input contains disallowed characters", <<>>)>>)
    ELSE InputResult(TRUE, typed.input, <<>>)

validateInput(input, rules) ==
    IF rules.required /\ IsEmptyInput(input)
    THEN InputResult(FALSE, JSNull, <<ErrorText("Field is required", <<>>)>>)
    ELSE IF ~rules.required /\ IsEmptyInput(input)
    THEN InputResult(TRUE, JSString(<<>>), <<>>)
    ELSE AfterSwitch(TypeCase(input, rules), rules)

---------------------------------------------------------------------------
(* The callers of validateURL and validateInput with a URL.                *)

MaxUrlFragments == 2

UrlFragments ==
    {Str_javascript \o <<":">>,
     <<"J","a","v","a","S","c","r","i","p","t",":">>,
     <<"j","a","v","a","\t","s","c","r","i","p","t",":">>,
     Str_data \o <<":">>,
     Str_vbscript \o <<":">>,
     Str_file \o <<":","/","/">>,
     Str_ftp \o <<":","/","/">>,
     Str_http \o <<":","/","/">>,
     Str_https \o <<":","/","/">>,
     Str_mailto \o <<":">>,
     Str_localhost,
     <<"1","2","7",".","0",".","0",".","1">>,
     <<"1","0",".","0",".","0",".","1">>,
     <<"1","7","2",".","1","6",".","0",".","1">>,
     <<"1","9","2",".","1","6","8",".","1",".","1">>,
     <<"e","x","a","m","p","l","e",".","c","o","m">>,
     <<"2","1","3","0","7","0","6","4","3","3">>,
     <<" ">>,
     <<"/","x">>}

RECURSIVE UrlStrings(_)
UrlStrings(n) ==
    IF n = 0 THEN {<<>>}
    ELSE UrlStrings(n - 1)
         \cup {s \o f : s \in UrlStrings(n - 1), f \in UrlFragments}

UrlRules ==
    {Rules("url", maxLength, NoPattern, required) :
        maxLength \in {JSUndefined, JSNumber(12)}, required \in BOOLEAN}

InitURL ==
    /\ call \in [fn : {"validateURL"},
                 url : {JSString(s) : s \in UrlStrings(MaxUrlFragments)}
                       \cup NonStrings,
                 allowedProtocols : {DefaultAllowedProtocols,
                                     {Str_https \o <<":">>}}]
               \cup
               [fn : {"validateInput"},
                url : {JSString(s) : s \in UrlStrings(MaxUrlFragments)}
                      \cup NonStrings,
                rules : UrlRules]
    /\ ret = NoValue
    /\ cpc = "call"
    /\ XssIdle
    /\ EvalIdle

\* a call of validateURL(url, allowedProtocols)
ValidateURL ==
    /\ cpc = "call"
    /\ call.fn = "validateURL"
    /\ ret' = validateURL(call.url, call.allowedProtocols)
    /\ cpc' = "returned"
    /\ UNCHANGED <<call, xssVars, evalVars>>

\* a call of validateInput(url, rules), rules.type being 'url'
ValidateInput ==
    /\ cpc = "call"
    /\ call.fn = "validateInput"
    /\ ret' = validateInput(call.url, call.rules)
    /\ cpc' = "returned"
    /\ UNCHANGED <<call, xssVars, evalVars>>

NextURL == ValidateURL \/ ValidateInput
SpecURL == InitURL /\ [][NextURL]_vars

\* the string, taken as a URL, has one of the five schemes: white space
\* around it and tabs and newlines inside it do not count
DangerousSchemes == {Str_javascript, Str_data, Str_vbscript, Str_file, Str_ftp}
HasDangerousScheme(s) ==
    LET cleaned == Without(StripOf(s, SpaceChars), TabOrNewline)
    IN  \E d \in DangerousSchemes : AtCI(cleaned, 1, d \o <<":">>)

\* C15: a URL whose scheme is javascript:, data:, vbscript:, file: or ftp:
\* is rejected: validateURL with the default protocols returns isValid
\* false, an error and an empty sanitizedURL, and validateInput with type
\* 'url' returns isValid false.
C15_DangerousSchemeRejected ==
    (cpc = "returned" /\ IsString(call.url) /\ HasDangerousScheme(call.url.s)) =>
        /\ (call.fn = "validateURL"
            /\ call.allowedProtocols = DefaultAllowedProtocols) =>
               /\ ~ret.isValid
               /\ ret.errors # <<>>
               /\ ret.sanitizedURL = <<>>
        /\ call.fn = "validateInput" => ~ret.isValid

\* validateURL has returned for a URL of a dangerous scheme that none of
\* the five patterns matches: the protocol test is what rejected it
C15_Witness ==
    /\ cpc = "returned"
    /\ call.fn = "validateURL"
    /\ call.allowedProtocols = DefaultAllowedProtocols
    /\ IsString(call.url)
    /\ HasDangerousScheme(call.url.s)
    /\ ret.errors = <<ErrorText("Protocol not allowed",
                                Str_javascript \o <<":">>)>>


\* the host is localhost or an IPv4 address of 127.0.0.0/8, 10.0.0.0/8,
\* 172.16.0.0/12 or 192.168.0.0/16
IsLoopbackOrPrivate(hostname) ==
    LET parts == Split(hostname, ".")
        dotted == /\ Len(parts) = 4
                  /\ \A k \in 1..4 : IsIndex(parts[k]) /\ Len(parts[k]) <= 3
        octet(k) == DigitsValue(parts[k])
    IN  \/ hostname = Str_localhost
        \/ /\ dotted
           /\ \/ octet(1) \in {127, 10}
              \/ octet(1) = 172 /\ octet(2) \in 16..31
              \/ octet(1) = 192 /\ octet(2) = 168

\* C16: validateURL returns isValid false for every URL whose host is
\* loopback or private (localhost, 127.0.0.0/8, 10.0.0.0/8, 172.16.0.0/12,
\* 192.168.0.0/16), whatever its scheme: a valid result implies a host
\* that is none of these.
C16_PrivateHostRejected ==
    (cpc = "returned" /\ call.fn = "validateURL" /\ IsString(call.url)
     /\ ParseURL(call.url.s).ok
     /\ IsLoopbackOrPrivate(ParseURL(call.url.s).hostname)) =>
        ~ret.isValid


---------------------------------------------------------------------------
(* The callers of the XSS sanitizeHTML with tags, anchors and policies.    *)

MaxTagFragments == 3

\* an anchor's start tag less its "<", so that it also stands after "<<x>"
AnchorTail(scheme, host) ==
    <<"a", " ", "i", "d", "=", "\"", "t", "\"", " ">> \o Str_href
    \o <<"=", "\"">> \o scheme \o <<":", "/", "/">> \o host
    \o <<"\"", " ">> \o Str_title \o <<"=", "\"", "t", "\"", ">">>

TagFragments ==
    {<<"<">>,
     <<"<", "x", ">">>,
     AnchorTail(Str_http, <<"e">>),
     AnchorTail(Str_ftp, <<"e">>),
     AnchorTail(Str_http, <<LoneSurrogate>>),
     <<"w", "<", "/", "a", ">">>,
     <<"w">>,
     <<"<", "b", ">">>,
     <<"<", "B", " ", "i", "d", "=", "\"", "t", "\"", ">">>,
     <<"<", "/", "b", ">">>}

RECURSIVE TagStrings(_)
TagStrings(n) ==
    IF n = 0 THEN {<<>>}
    ELSE TagStrings(n - 1)
         \cup {s \o f : s \in TagStrings(n - 1), f \in TagFragments}

TagOptions ==
    [allowBasicFormatting : BOOLEAN, allowLinks : BOOLEAN,
     allowImages : BOOLEAN, maxLength : {DefaultMaxLength}]

InitTags ==
    /\ call \in [fn : {"sanitizeHTML"},
                 html : {JSString(s) : s \in TagStrings(MaxTagFragments)}
                        \cup NonStrings,
                 options : TagOptions]
    /\ ret = NoValue
    /\ cpc = "call"
    /\ XssIdle
    /\ EvalIdle

\* a call of sanitizeHTML(html, options): it returns or it throws
SanitizeTags ==
    /\ cpc = "call"
    /\ call.fn = "sanitizeHTML"
    /\ ret' = sanitizeHTML(call.html, call.options)
    /\ cpc' = "returned"
    /\ UNCHANGED <<call, xssVars, evalVars>>

NextTags == SanitizeTags
SpecTags == InitTags /\ [][NextTags]_vars

TagsDone == cpc = "returned" /\ call.fn = "sanitizeHTML"

\* C17: sanitizeHTML is total: for every first argument and every policy
\* it returns a string and never throws, and for a first argument that is
\* not a string it returns the empty string.
C17_SanitizeTotal ==
    TagsDone =>
        /\ ~ret.thrown
        /\ IsString(ret.ret)
        /\ ~IsString(call.html) => ret.ret = JSString(<<>>)

\* where the tags of a string start, as /<(\/?)([\w]+)[^>]*>/g finds them
\* from the left
RECURSIVE TagStarts(_, _)
TagStarts(s, i) ==
    IF i > Len(s) THEN <<>>
    ELSE IF NamedTagMatch(s, i) # 0
         THEN <<i>> \o TagStarts(s, NamedTagMatch(s, i) + 1)
    ELSE TagStarts(s, i + 1)

\* the tags of a string as they are written
TagsIn(s) ==
    [k \in 1..Len(TagStarts(s, 1)) |->
        SubSeq(s, TagStarts(s, 1)[k], NamedTagMatch(s, TagStarts(s, 1)[k]))]

\* the allow-listed tags of a string, lower-cased and without attributes
AllowListed(s) ==
    SelectSeq([k \in 1..Len(TagStarts(s, 1)) |->
                  KeepSafeTag(s, TagStarts(s, 1)[k])],
              LAMBDA x : x # <<>>)

Count(s, c) == Cardinality({k \in 1..Len(s) : s[k] = c})

\* every "<" and every ">" of the string belongs to a tag of its own
OnlyWholeTags(s) ==
    /\ Count(s, "<") = Len(TagsIn(s))
    /\ Count(s, ">") = Len(TagsIn(s))

\* C18: with allowBasicFormatting the tags of the output are the
\* allow-listed tags of the input (b, i, u, em, strong, p, br, span, div),
\* lower-cased and without attributes, every other tag being removed;
\* without it the output has no tag.
C18_FormattingPolicy ==
    (TagsDone /\ IsString(call.html) /\ ~ret.thrown
     /\ OnlyWholeTags(call.html.s)) =>
        TagsIn(ret.ret.s) =
            IF call.options.allowBasicFormatting
            THEN AllowListed(call.html.s) ELSE <<>>


\* the text enclosed by the anchor element that starts at index i
AnchorText(s, i) ==
    SubSeq(s, FirstChar(s, i + 2, ">") + 1, AnchorBlockMatch(s, i) - 4)

\* a part of the input that stands only inside anchor elements is not in
\* the output
Gone(part, s, out) ==
    ~Includes(RemoveAnchors(s), part) => ~Includes(out, part)

\* C19: without allowLinks every anchor element is removed with its
\* content: for an input that holds <a ...>text</a>, neither the anchor's
\* attributes nor the enclosed text appear in the output.
C19_AnchorsRemoved ==
    (TagsDone /\ IsString(call.html) /\ ~ret.thrown
     /\ ~call.options.allowLinks) =>
        \A i \in 1..Len(call.html.s) :
            (/\ AnchorBlockMatch(call.html.s, i) # 0
             /\ AnchorText(call.html.s, i) # <<>>
             /\ \A k \in 1..Len(AnchorText(call.html.s, i)) :
                   AnchorText(call.html.s, i)[k] \in Letters) =>
                /\ Gone(AnchorText(call.html.s, i), call.html.s, ret.ret.s)
                /\ Gone(Str_href, call.html.s, ret.ret.s)

\* C20: with allowLinks every anchor of the input is rebuilt in the
\* output (as it stands or entity-escaped) with the href it had when the
\* href uses http, https or mailto, without an href when it uses another
\* scheme, with its escaped title and with no other attribute.
C20_AnchorsRebuilt ==
    (TagsDone /\ IsString(call.html) /\ ~ret.thrown
     /\ call.options.allowLinks
     /\ LoneSurrogate \notin Range(call.html.s)) =>
        \A i \in 1..Len(call.html.s) :
            AttrTagMatch(call.html.s, i, <<"a">>) # 0 =>
                \/ Includes(ret.ret.s, RebuildAnchor(call.html.s, i))
                \/ Includes(ret.ret.s,
                       escapeHTML(JSString(RebuildAnchor(call.html.s, i))))

---------------------------------------------------------------------------
(* The callers of validateInput and parseSecureParameters                  *)
(* (01-input-validation).  A URL among the inputs carries "@" and "'"      *)
(* only in its path, where the URL parser copies them.                     *)

MaxInputFragments == 2

InputFragments ==
    {<<"a">>, <<"a","b">>, <<"1">>, <<"-">>, <<"'">>, <<" ">>,
     <<"a","@","b",".","c","o">>,
     Str_http \o <<":","/","/","e","/">>,
     <<"I","n","f","i","n","i","t","y">>}

RECURSIVE InputStrings(_)
InputStrings(n) ==
    IF n = 0 THEN {<<>>}
    ELSE InputStrings(n - 1)
         \cup {s \o f : s \in InputStrings(n - 1), f \in InputFragments}

\* what a caller passes as input: strings, and values that are no string
InputValues ==
    {JSString(s) : s \in InputStrings(MaxInputFragments)}
    \cup {JSUndefined, JSNull, JSNumber(0), JSNumber(1), NaNValue,
          Infinite(FALSE), JSBoolean(TRUE), JSArray(<<>>), PlainObject(<<>>)}

\* /^[a-zA-Z0-9_-]+$/ (test.js line 343)
NamePattern == Pattern(Letters \cup Digits \cup {"_", "-"})

InputRules ==
    {Rules(type, maxLength, allowedChars, required) :
        type \in {"none", "string", "number", "email", "url"},
        maxLength \in {JSUndefined, JSNumber(0), JSNumber(3)},
        allowedChars \in {NoPattern, NamePattern},
        required \in BOOLEAN}

\* new URLSearchParams(source) of a string: one leading "?" is dropped,
\* the rest is split at "&", each piece that is not empty at its first
\* "=", and "+" stands for a space; the inputs hold no percent escapes
PlusToSpace(s) == [k \in 1..Len(s) |-> IF s[k] = "+" THEN " " ELSE s[k]]
NameAndValue(piece, eq) ==
    IF eq = 0 THEN [name |-> PlusToSpace(piece), value |-> <<>>]
    ELSE [name |-> PlusToSpace(SubSeq(piece, 1, eq - 1)),
          value |-> PlusToSpace(SubSeq(piece, eq + 1, Len(piece)))]
PairsOf(pieces) ==
    [k \in 1..Len(pieces) |-> NameAndValue(pieces[k],
                                           FirstChar(pieces[k], 1, "="))]
URLSearchParams(source) ==
    [t |-> "object", class |-> "URLSearchParams",
     pairs |-> PairsOf(SelectSeq(
                   Split(IF source # <<>> /\ source[1] = "?"
                         THEN Tail(source) ELSE source, "&"),
                   LAMBDA piece : piece # <<>>))]

\* params.get(key): the value of the first pair of that name, or null
RECURSIVE GetFromPairs(_, _, _)
GetFromPairs(pairs, i, key) ==
    IF i > Len(pairs) THEN JSNull
    ELSE IF pairs[i].name = key THEN JSString(pairs[i].value)
    ELSE GetFromPairs(pairs, i + 1, key)
Get(params, key) == GetFromPairs(params.pairs, 1, key)

\* a result object: { isValid, data, errors }
ParamsResult(isValid, data, errors) ==
    [isValid |-> isValid, data |-> data, errors |-> errors]

\* `${key}: ${validation.errors.join(', ')}`
FieldError(key, errors) == [key |-> key, errors |-> errors]

\* obj[key] = value on a plain object: the key __proto__ reaches the setter
\* of Object.prototype, which makes no own property, and which leaves the
\* object as it is when the value is neither an object nor null
Assign(obj, key, value) ==
    IF key = Str_proto THEN obj
    ELSE PlainObject((key :> value) @@ obj.own)

\* one turn of the loop of lines 236-246
ValidateField(res, key, validation) ==
    IF ~validation.isValid
    THEN ParamsResult(FALSE, res.data,
                      Append(res.errors, FieldError(key, validation.errors)))
    ELSE ParamsResult(res.isValid, Assign(res.data, key, validation.value),
                      res.errors)

\* the loop over Object.entries(schema), from entry i on
RECURSIVE ValidateFields(_, _, _, _)
ValidateFields(params, entries, i, res) ==
    IF i > Len(entries) THEN res
    ELSE ValidateFields(params, entries, i + 1,
             ValidateField(res, entries[i].key,
                 validateInput(Get(params, entries[i].key),
                               entries[i].rules)))

\* schema stands for Object.entries(schema): the own keys, which are names
\* and so come in the order of their creation, each with its rules
parseSecureParameters(source, schema) ==
    IF IsString(source)
    THEN ValidateFields(URLSearchParams(source.s), schema, 1,
                        ParamsResult(TRUE, PlainObject(<<>>), <<>>))
    ELSE IF source.t = "object" /\ source.class = "URLSearchParams"
    THEN ValidateFields(source, schema, 1,
                        ParamsResult(TRUE, PlainObject(<<>>), <<>>))
    ELSE ParamsResult(FALSE, PlainObject(<<>>),
                      <<ErrorText("Invalid parameter source", <<>>)>>)

MaxParams == 2

ParamFragments ==
    {<<"u","=","a">>, <<"u","=","'">>, <<"u","=","a","b","c","d">>,
     <<"n","=","1">>, <<"n","=","a">>, Str_proto \o <<"=","a">>}

RECURSIVE QueryStrings(_)
QueryStrings(n) ==
    IF n = 0 THEN {<<>>}
    ELSE QueryStrings(n - 1)
         \cup ParamFragments
         \cup {s \o <<"&">> \o f : s \in QueryStrings(n - 1) \ {<<>>},
                                  f \in ParamFragments}

ParamSources ==
    {JSString(s) : s \in QueryStrings(MaxParams)}
    \cup {JSString(<<"?">> \o s) : s \in QueryStrings(MaxParams)}
    \cup {URLSearchParams(<<"u","=","a","&","u","=","'">>),
          JSNull, JSUndefined, PlainObject(<<"u">> :> JSString(<<"a">>))}

FieldNames == {<<"u">>, <<"n">>, Str_proto}
FieldRules ==
    {Rules("string", JSNumber(3), NamePattern, TRUE),
     Rules("number", JSUndefined, NoPattern, TRUE),
     Rules("string", JSUndefined, NoPattern, FALSE)}

Entry(key, rules) == [key |-> key, rules |-> rules]
Schemas ==
    {<<>>}
    \cup {<<Entry(k, r)>> : k \in FieldNames, r \in FieldRules}
    \cup {<<Entry(keys[1], r1), Entry(keys[2], r2)>> :
             keys \in {ks \in FieldNames \X FieldNames : ks[1] # ks[2]},
             r1 \in FieldRules, r2 \in FieldRules}

InitInput ==
    /\ call \in [fn : {"validateInput"}, input : InputValues,
                 rules : InputRules]
               \cup
               [fn : {"parseSecureParameters"}, source : ParamSources,
                schema : Schemas]
    /\ ret = NoValue
    /\ cpc = "call"
    /\ XssIdle
    /\ EvalIdle

\* a call of validateInput(input, rules)
ValidateAnyInput ==
    /\ cpc = "call"
    /\ call.fn = "validateInput"
    /\ ret' = validateInput(call.input, call.rules)
    /\ cpc' = "returned"
    /\ UNCHANGED <<call, xssVars, evalVars>>

\* a call of parseSecureParameters(source, schema)
ParseSecureParameters ==
    /\ cpc = "call"
    /\ call.fn = "parseSecureParameters"
    /\ ret' = parseSecureParameters(call.source, call.schema)
    /\ cpc' = "returned"
    /\ UNCHANGED <<call, xssVars, evalVars>>

NextInput == ValidateAnyInput \/ ParseSecureParameters
SpecInput == InitInput /\ [][NextInput]_vars

\* C21: every result of validateInput has isValid true exactly when errors
\* is empty; a valid result has a value that is set, the empty string when
\* the input is '', null or undefined and the field is not required; an
\* invalid result has the value null and exactly one message.
C21_ResultInvariant ==
    (cpc = "returned" /\ call.fn = "validateInput") =>
        /\ ret.isValid <=> ret.errors = <<>>
        /\ ret.isValid =>
              /\ ret.value.t \notin {"null", "undefined", "none"}
              /\ (IsEmptyInput(call.input) /\ ~call.rules.required) =>
                     ret.value = JSString(<<>>)
        /\ ~ret.isValid => ret.value = JSNull /\ Len(ret.errors) = 1

\* validateInput has returned for a string that is both longer than
\* maxLength and outside allowedChars, with the message of the length test
C21_Witness ==
    /\ cpc = "returned"
    /\ call.fn = "validateInput"
    /\ call.rules.type = "string"
    /\ call.rules.maxLength = JSNumber(3)
    /\ call.rules.allowedChars = NamePattern
    /\ IsString(call.input)
    /\ Len(call.input.s) > 3
    /\ ~TestPattern(NamePattern, call.input.s)
    /\ ret.errors = <<ErrorText("Input exceeds maximum length of", <<"3">>)>>

\* C22: with type 'string' and a maxLength n that is a non-negative
\* integer, 0 included, a string longer than n is invalid with the
\* length-exceeded message, and a string of exactly n characters is not
\* rejected for its length.
C22_MaxLengthEnforced ==
    (cpc = "returned" /\ call.fn = "validateInput"
     /\ call.rules.type = "string" /\ call.rules.maxLength.t = "number"
     /\ IsString(call.input)) =>
        /\ Len(call.input.s) > call.rules.maxLength.n =>
              /\ ~ret.isValid
              /\ ret.errors =
                    <<ErrorText("Input exceeds maximum length of",
                                DecimalString(call.rules.maxLength.n))>>
        /\ Len(call.input.s) = call.rules.maxLength.n =>
              \A k \in 1..Len(ret.errors) :
                  ret.errors[k].msg # "Input exceeds maximum length of"

\* the parameters a source holds
ParamsOf(source) ==
    IF IsString(source) THEN URLSearchParams(source.s) ELSE source

\* validateInput on the field of a schema entry, made alone
FieldValidation(source, entry) ==
    validateInput(Get(ParamsOf(source), entry.key), entry.rules)

\* C23: for a source that holds parameters, parseSecureParameters
\* validates every field of the schema: errors has one entry for each
\* field whose validateInput result is invalid, in the order of the
\* schema, data holds exactly the fields that validated, each with its
\* validated value, and isValid is true exactly when errors is empty.
C23_Aggregates ==
    (cpc = "returned" /\ call.fn = "parseSecureParameters"
     /\ (IsString(call.source) \/ call.source.t = "object")
     /\ (call.source.t = "object" => call.source.class = "URLSearchParams")) =>
        LET invalid == SelectSeq(call.schema,
                LAMBDA e : ~FieldValidation(call.source, e).isValid)
            valid == {k \in 1..Len(call.schema) :
                         FieldValidation(call.source, call.schema[k]).isValid}
        IN  /\ Len(ret.errors) = Len(invalid)
            /\ \A k \in 1..Len(invalid) :
                  ret.errors[k] =
                      FieldError(invalid[k].key,
                          FieldValidation(call.source, invalid[k]).errors)
            /\ ret.isValid <=> ret.errors = <<>>
            /\ DOMAIN ret.data.own = {call.schema[k].key : k \in valid}
            /\ \A k \in valid :
                  ret.data.own[call.schema[k].key] =
                      FieldValidation(call.source, call.schema[k]).value

---------------------------------------------------------------------------
(* Two calls of secureEval, one after the other, in one host: the objects  *)
(* that outlive the first call are those the second call finds.            *)

MaxSharedFragments == 2

SharedFragments ==
    {Str_Math \o <<".">> \o Str_abs, Str_Math \o <<".", "a">>, <<"g">>,
     <<"+", "+">>, <<"(", "1", ")">>, <<"/">>}

RECURSIVE SharedStrings(_)
SharedStrings(n) ==
    IF n = 0 THEN {<<>>}
    ELSE SharedStrings(n - 1)
         \cup {s \o f : s \in SharedStrings(n - 1), f \in SharedFragments}

\* no context, and one with a function
SharedContexts == {<<>>, <<"g">> :> JSFunction("returns 1")}

\* the caller passes the same context object to both calls
InitShared ==
    /\ expression \in {JSString(s) : s \in SharedStrings(MaxSharedFragments)}
    /\ context \in SharedContexts
    /\ result = NoValue
    /\ compiled = FALSE
    /\ thrown = FALSE
    /\ resolved = {}
    /\ heap = NoWrites
    /\ epc = "call"
    /\ call \in [fn : {"secureEval"},
                 expression : {JSString(s) :
                                  s \in SharedStrings(MaxSharedFragments)}]
    /\ ret = NoValue
    /\ cpc = "call"
    /\ XssIdle

\* the caller keeps the result of the first call and makes the second,
\* secureEval(call.expression, context)
SecureEvalNext ==
    /\ epc = "returned"
    /\ cpc = "call"
    /\ ret' = result
    /\ expression' = call.expression
    /\ result' = NoValue
    /\ compiled' = FALSE
    /\ thrown' = FALSE
    /\ resolved' = {}
    /\ epc' = "call"
    /\ cpc' = "next"
    /\ UNCHANGED <<context, heap, call>>
    /\ UNCHANGED xssVars

\* SecureEval leaves call, ret and cpc alone
NextShared == SecureEval \/ SecureEvalNext
SpecShared == InitShared /\ [][NextShared]_vars

\* C24: calls keep no state: a call of secureEval writes nothing on its
\* arguments or on an object shared between calls, and the result of a
\* call made after another equals the result of the same call made alone.
C24_CallsIndependent ==
    /\ epc = "returned" => heap = NoWrites
    /\ (epc = "returned" /\ cpc = "next") =>
          result = secureEval(expression, context, NoWrites).result

---------------------------------------------------------------------------
(* sanitizeHTML of the input-validation module (01-input-validation).      *)

\* /<name[^>]*>.*?<\/name>/gi : as BlockMatch, but without the s flag the
\* lazy body holds no line terminator
LineBlockMatch(s, i, name) ==
    IF BlockMatch(s, i, name) = 0 THEN 0
    ELSE IF \E k \in FirstChar(s, i + 1 + Len(name), ">")
                     ..(BlockMatch(s, i, name) - Len(name) - 3) :
               IsLineTerminator(s[k])
         THEN 0
    ELSE BlockMatch(s, i, name)

\* /javascript:/gi
JavascriptMatch(s, i) ==
    IF AtCI(s, i, Str_javascript \o <<":">>)
    THEN i + Len(Str_javascript) ELSE 0

\* /data:\s*[^;]*;[^,]*,/gi : to the first ',' after the first ';'
DataUrlEnd(s, semi) == IF semi = 0 THEN 0 ELSE FirstChar(s, semi + 1, ",")
DataUrlMatch(s, i) ==
    IF ~AtCI(s, i, Str_data \o <<":">>) THEN 0
    ELSE DataUrlEnd(s, FirstChar(s, i + Len(Str_data) + 1, ";"))

\* the six replace calls of the return statement, in their order: no
\* replacement holds a character that a later call replaces
EntityOf(c) ==
    CASE c = "&" -> <<"&","a","m","p",";">>
      [] c = "<" -> <<"&","l","t",";">>
      [] c = ">" -> <<"&","g","t",";">>
      [] c = "\"" -> <<"&","q","u","o","t",";">>
      [] c = "'" -> <<"&","#","x","2","7",";">>
      [] c = "/" -> <<"&","#","x","2","F",";">>
      [] OTHER -> <<c>>
EscapeEntities(s) == Flatten([k \in 1..Len(s) |-> EntityOf(s[k])])

\* html.replace(expression, '') of lines 119, 122, 129 and 132; the two
\* expressions of the event handlers are those of the XSS module
RemoveScripts(s) ==
    ReplaceAll(s, [i \in 1..Len(s) |-> LineBlockMatch(s, i, Str_script)],
               Const(s, <<>>))
RemoveIframes(s) ==
    ReplaceAll(s, [i \in 1..Len(s) |->
                      LineBlockMatch(s, i, <<"i","f","r","a","m","e">>)],
               Const(s, <<>>))
RemoveJavascript(s) ==
    ReplaceAll(s, [i \in 1..Len(s) |-> JavascriptMatch(s, i)], Const(s, <<>>))
RemoveDataUrls(s) ==
    ReplaceAll(s, [i \in 1..Len(s) |-> DataUrlMatch(s, i)], Const(s, <<>>))

\* sanitizeHTML(html) of src/unnamed/part_000
StripHTML(h) ==
    IF ~IsString(h) THEN <<>>
    ELSE EscapeEntities(RemoveDataUrls(RemoveJavascript(RemoveBareHandlers(
             RemoveQuotedHandlers(RemoveIframes(RemoveScripts(h.s)))))))

MaxStripFragments == 3

StripFragments ==
    {<<"j","a","v","a">>, <<"J","a","V","a">>, Str_script \o <<":">>,
     Str_javascript \o <<":">>, Str_data \o <<":",";",",">>,
     <<"<">> \o Str_script \o <<">">>, <<"<","/">> \o Str_script \o <<">">>,
     <<" ","o","n","x","=">>, <<"'">>, <<"\n">>}

RECURSIVE StripStrings(_)
StripStrings(n) ==
    IF n = 0 THEN {<<>>}
    ELSE StripStrings(n - 1)
         \cup {s \o f : s \in StripStrings(n - 1), f \in StripFragments}

InitStrip ==
    /\ call \in [fn : {"sanitizeHTML"},
                 html : {JSString(s) : s \in StripStrings(MaxStripFragments)}
                        \cup NonStrings]
    /\ ret = NoValue
    /\ cpc = "call"
    /\ XssIdle
    /\ EvalIdle

\* a call of sanitizeHTML(html)
StripCall ==
    /\ cpc = "call"
    /\ ret' = JSString(StripHTML(call.html))
    /\ cpc' = "returned"
    /\ UNCHANGED <<call, xssVars, evalVars>>

NextStrip == StripCall
SpecStrip == InitStrip /\ [][NextStrip]_vars

\* C25: for every input string the output of the input-validation
\* sanitizeHTML holds no 'javascript:' in any letter case, also when the
\* token is nested inside another occurrence of itself.
C25_NoJavascriptScheme ==
    (cpc = "returned" /\ IsString(call.html)) =>
        ~IncludesCI(ret.s, Str_javascript \o <<":">>)

---------------------------------------------------------------------------
(* The rewrite passes of the XSS sanitizeHTML, each applied alone and then *)
(* to its own output.                                                      *)

\* the passes of lines 641-679, grouped as the statements of the code are
Passes ==
    {"script blocks", "style blocks", "structural tags", "event handlers",
     "schemes", "css", "strip tags", "keep tags"}

ApplyPass(pass, s) ==
    CASE pass = "script blocks" -> RemoveScriptBlocks(s)
      [] pass = "style blocks" -> RemoveStyleBlocks(s)
      [] pass = "structural tags" ->
            RemoveStructuralTags(RemoveStructuralBlocks(s))
      [] pass = "event handlers" ->
            RemoveBareHandlers(RemoveQuotedHandlers(s))
      [] pass = "schemes" ->
            BlockScheme(BlockScheme(BlockScheme(s, Str_javascript), Str_data),
                        Str_vbscript)
      [] pass = "css" -> BlockImport(BlockExpression(s))
      [] pass = "strip tags" -> FormattingPass(s, FALSE)
      [] pass = "keep tags" -> FormattingPass(s, TRUE)

MaxPassFragments == 4

PassFragments ==
    {<<"<","s","c","r">>, <<"i","p","t",">">>,
     <<"<">> \o Str_script \o <<">", "<","/">> \o Str_script \o <<">">>,
     <<"<","/">> \o Str_script \o <<">">>,
     Str_javascript \o <<":">>, <<" ","o","n","x","=","1">>}

RECURSIVE PassStrings(_)
PassStrings(n) ==
    IF n = 0 THEN {<<>>}
    ELSE PassStrings(n - 1)
         \cup {s \o f : s \in PassStrings(n - 1), f \in PassFragments}

InitPass ==
    /\ call \in [fn : {"pass"}, pass : Passes,
                 text : PassStrings(MaxPassFragments)]
    /\ ret = <<>>
    /\ cpc = "call"
    /\ XssIdle
    /\ EvalIdle

\* the pass applied to the text
PassOnce ==
    /\ cpc = "call"
    /\ ret' = <<ApplyPass(call.pass, call.text)>>
    /\ cpc' = "applied"
    /\ UNCHANGED <<call, xssVars, evalVars>>

\* the pass applied to its own output
PassAgain ==
    /\ cpc = "applied"
    /\ ret' = Append(ret, ApplyPass(call.pass, ret[1]))
    /\ cpc' = "applied twice"
    /\ UNCHANGED <<call, xssVars, evalVars>>

NextPass == PassOnce \/ PassAgain
SpecPass == InitPass /\ [][NextPass]_vars

\* C26: each rewrite pass taken alone is idempotent: applied to its own
\* output it changes nothing, also when an opening tag is split around a
\* complete inner block.
C26_PassIdempotent ==
    cpc = "applied twice" => ret[2] = ret[1]

---------------------------------------------------------------------------
(* safeCalculator.                                                         *)

\* /^[\d\s+\-*/().]+$/
CalculatorChars ==
    Digits \cup SpaceChars \cup {"+", "-", "*", "/", "(", ")", "."}
calculatorPattern(s) ==
    Len(s) >= 1 /\ \A k \in 1..Len(s) : s[k] \in CalculatorChars

Msg_CalcNotString == "Expression must be a string"
Msg_CalcInvalid == "Invalid mathematical expression"
Msg_Unbalanced == "Unbalanced parentheses"
Msg_DivisionByZero == "Division by zero"
Msg_NotFinite == "Result is not a finite number"
Msg_CalcFailed == "Calculation failed"

\* what a call returns, and whether it reached new Function
Calculated(error, res, reachedCompile) ==
    [error |-> error, result |-> res, compiled |-> reachedCompile]
CalcError(msg, reachedCompile) ==
    Calculated(JSString(msg), JSNull, reachedCompile)

\* the loop over the characters that only compares the count at the end
RECURSIVE ParenLoop_TotalOnly(_, _, _)
ParenLoop_TotalOnly(s, k, parenCount) ==
    IF k > Len(s) THEN parenCount = 0
    ELSE ParenLoop_TotalOnly(s, k + 1,
            parenCount + (IF s[k] = "(" THEN 1
                          ELSE IF s[k] = ")" THEN -1 ELSE 0))

\* the loop over the characters from the k-th on and the comparison behind
\* it: TRUE when the count never falls below 0 and ends at 0
RECURSIVE ParenLoop(_, _, _)
ParenLoop(s, k, parenCount) ==
    IF k > Len(s) THEN parenCount = 0
    ELSE LET count == parenCount + (IF s[k] = "(" THEN 1
                                    ELSE IF s[k] = ")" THEN -1 ELSE 0)
         IN  IF count < 0 THEN FALSE ELSE ParenLoop(s, k + 1, count)

\* /\/\s*0(?!\d)/ matched at index i
DivisionByZeroAt(s, i) ==
    LET zero == RunEnd(s, i + 1, SpaceChars)
    IN  /\ s[i] = "/"
        /\ zero <= Len(s)
        /\ s[zero] = "0"
        /\ ~(zero + 1 <= Len(s) /\ s[zero + 1] \in Digits)

\* /\/\s*0(?!\d)/.test(expression)
DivisionByZeroTest(s) == \E i \in 1..Len(s) : DivisionByZeroAt(s, i)

\* Number.isFinite(v)
NumberIsFinite(v) == v.t = "number" /\ v.k = "finite"

\* the try block and its catch: the function has no parameter
TryCalculate(s) ==
    IF ~ParseBody(s).ok THEN CalcError(Msg_CalcFailed, TRUE)
    ELSE LET run == Evaluate(ParseBody(s).ast, Store(<<>>, NoWrites))
         IN  IF run.threw THEN CalcError(Msg_CalcFailed, TRUE)
             ELSE IF ~NumberIsFinite(run.v)
             THEN CalcError(Msg_NotFinite, TRUE)
             ELSE Calculated(JSNull, run.v, TRUE)

\* safeCalculator(expression)
safeCalculator(expr) ==
    IF ~IsString(expr) THEN CalcError(Msg_CalcNotString, FALSE)
    ELSE IF ~calculatorPattern(expr.s) THEN CalcError(Msg_CalcInvalid, FALSE)
    ELSE IF ~ParenLoop(expr.s, 1, 0) THEN CalcError(Msg_Unbalanced, FALSE)
    ELSE IF DivisionByZeroTest(expr.s)
    THEN CalcError(Msg_DivisionByZero, FALSE)
    ELSE TryCalculate(expr.s)

\* the longest expression, in characters
MaxCalcLength == 5

\* the characters of the expressions: digits, the division sign, the
\* parentheses, the point, a space, and a letter the pattern refuses
CalcChars == {"1", "0", "/", "(", ")", ".", " ", "a"}

CalcStrings == UNION {[1..n -> CalcChars] : n \in 0..MaxCalcLength}

InitCalc ==
    /\ call \in [fn : {"safeCalculator"},
                 expression : {JSString(s) : s \in CalcStrings} \cup NonStrings]
    /\ ret = NoValue
    /\ cpc = "call"
    /\ XssIdle
    /\ EvalIdle

\* a call of safeCalculator(expression)
SafeCalculator ==
    /\ cpc = "call"
    /\ call.fn = "safeCalculator"
    /\ ret' = safeCalculator(call.expression)
    /\ cpc' = "returned"
    /\ UNCHANGED <<call, xssVars, evalVars>>

NextCalc == SafeCalculator
SpecCalc == InitCalc /\ [][NextCalc]_vars

\* the number of characters c among the first k of s
CountOf(s, c, k) == Cardinality({m \in 1..k : s[m] = c})

\* some prefix holds more ')' than '(', or the totals differ
Unbalanced(s) ==
    \/ \E k \in 1..Len(s) : CountOf(s, ")", k) > CountOf(s, "(", k)
    \/ CountOf(s, "(", Len(s)) # CountOf(s, ")", Len(s))

\* a '/' followed, behind white space or none, by a 0 that no digit follows
LiteralZeroDivisor(s) ==
    \E i, j \in 1..Len(s) :
        /\ i < j
        /\ s[i] = "/"
        /\ \A m \in (i + 1)..(j - 1) : s[m] \in SpaceChars
        /\ s[j] = "0"
        /\ (j = Len(s) \/ s[j + 1] \notin Digits)

\* the expression of the call passed the character gate
PassedGate ==
    /\ cpc = "returned"
    /\ call.fn = "safeCalculator"
    /\ IsString(call.expression)
    /\ calculatorPattern(call.expression.s)

\* C28: safeCalculator checks before it executes: an expression that passes
\* the character gate and has unbalanced parentheses, or a '/' followed
\* (behind optional white space) by a literal 0 that no digit follows, gets
\* an error and result = null without being compiled or run; and a result
\* that is not null is a finite number returned with error = null.
C28_PreChecksBeforeExecution ==
    /\ PassedGate /\ (Unbalanced(call.expression.s)
                      \/ LiteralZeroDivisor(call.expression.s)) =>
          /\ ret.error # JSNull
          /\ ret.result = JSNull
          /\ ~ret.compiled
    /\ cpc = "returned" /\ call.fn = "safeCalculator" /\ ret.result # JSNull =>
          /\ NumberIsFinite(ret.result)
          /\ ret.error = JSNull

\* a division by 0 written with a space and balanced parentheses, refused
\* before the compilation
C28_Witness ==
    /\ PassedGate
    /\ ~Unbalanced(call.expression.s)
    /\ LiteralZeroDivisor(call.expression.s)
    /\ Includes(call.expression.s, <<"/", " ", "0">>)
    /\ Includes(call.expression.s, <<"(">>)
    /\ ret = CalcError(Msg_DivisionByZero, FALSE)

---------------------------------------------------------------------------
(* sanitizeHTML of the XSS module: the cut at maxLength and the texts the  *)
(* passes behind it work on.                                               *)

\* the replace calls between the cut and the link pass, in their order
PassOrder ==
    <<"script blocks", "style blocks", "structural blocks",
      "structural tags", "quoted handlers", "bare handlers", "javascript:",
      "data:", "vbscript:", "expression(", "@import", "tag policy">>
PassCount == Len(PassOrder)
PassAt(k, s, opts) ==
    CASE PassOrder[k] = "script blocks" -> RemoveScriptBlocks(s)
      [] PassOrder[k] = "style blocks" -> RemoveStyleBlocks(s)
      [] PassOrder[k] = "structural blocks" -> RemoveStructuralBlocks(s)
      [] PassOrder[k] = "structural tags" -> RemoveStructuralTags(s)
      [] PassOrder[k] = "quoted handlers" -> RemoveQuotedHandlers(s)
      [] PassOrder[k] = "bare handlers" -> RemoveBareHandlers(s)
      [] PassOrder[k] = "javascript:" -> BlockScheme(s, Str_javascript)
      [] PassOrder[k] = "data:" -> BlockScheme(s, Str_data)
      [] PassOrder[k] = "vbscript:" -> BlockScheme(s, Str_vbscript)
      [] PassOrder[k] = "expression(" -> BlockExpression(s)
      [] PassOrder[k] = "@import" -> BlockImport(s)
      [] PassOrder[k] = "tag policy" ->
            FormattingPass(s, opts.allowBasicFormatting)

\* the value of html each pass from the k-th on is called on, and behind
\* them the one the link pass is called on
RECURSIVE PassInputs(_, _, _)
PassInputs(k, s, opts) ==
    IF k > PassCount THEN <<s>>
    ELSE <<s>> \o PassInputs(k + 1, PassAt(k, s, opts), opts)

\* the longest input, in fragments
MaxCutFragments == 3

CutFragments ==
    {Str_data \o <<":">>, Str_javascript \o <<":">>, <<"<", "b", ">">>,
     <<"x">>, <<" ", "o", "n", "x", "=", "1">>, <<"<", "/", "b", ">">>}

RECURSIVE CutStrings(_)
CutStrings(n) ==
    IF n = 0 THEN {<<>>}
    ELSE CutStrings(n - 1)
         \cup {s \o f : s \in CutStrings(n - 1), f \in CutFragments}

InitCut ==
    /\ call \in [fn : {"sanitizeHTML"},
                 html : {JSString(s) : s \in CutStrings(MaxCutFragments)},
                 options : XssOptions]
    /\ ret = NoValue
    /\ cpc = "call"
    /\ XssIdle
    /\ EvalIdle

\* a call of sanitizeHTML(html, options), with the texts its passes saw
SanitizeWhole ==
    /\ cpc = "call"
    /\ ret' = [whole |-> sanitizeHTML(call.html, call.options),
               inputs |-> PassInputs(1, Truncate(call.html.s,
                                                 call.options.maxLength),
                                     call.options)]
    /\ cpc' = "whole"
    /\ UNCHANGED <<call, xssVars, evalVars>>

\* a call of sanitizeHTML(html.substring(0, maxLength), options)
SanitizePrefix ==
    /\ cpc = "whole"
    /\ ret' = [whole |-> ret.whole, inputs |-> ret.inputs,
               prefix |-> sanitizeHTML(
                              JSString(Substring0(call.html.s,
                                                  call.options.maxLength)),
                              call.options)]
    /\ cpc' = "both"
    /\ UNCHANGED <<call, xssVars, evalVars>>

NextCut == SanitizeWhole \/ SanitizePrefix
SpecCut == InitCut /\ [][NextCut]_vars

\* the index of the pass that replaces 'data:'
DataPass == CHOOSE k \in 1..PassCount : PassOrder[k] = "data:"

=============================================================================
